---- MODULE Spec2Model ----
(***************************************************************************)
(* A model of pc.fw.RigidBodyComponentSystem                               *)
(* (src/src/framework/components/physics/rigidbody_system.js): the two     *)
(* collision registries, the three result pools, the dynamics world and    *)
(* its bodies, constraints and gravity, onLibraryLoaded, the component     *)
(* initialization, addBody, removeBody, onRemove, the per-frame update and *)
(* raycastFirst.  Events are recorded as the calls of fire() the code      *)
(* makes, in the order it makes them.                                      *)
(***************************************************************************)
EXTENDS Integers, Sequences, FiniteSets, TLC

(***************************************************************************)
(* Bounds of the model.                                                    *)
(***************************************************************************)
\* The longest manifold list the dispatcher reports in one update.
MaxManifolds == 2
\* Pooled objects an update that threw may leave outstanding before the
\* next update is explored.
MaxLeaked == 2
\* The number of updates a recorded scenario run holds.
MaxSteps == 5
\* Native ray-query objects left alive before raycasts stop being explored.
MaxRayLeaks == 2
\* The number of updates a recorded run with a changing scene holds.
MaxRecorded == 4

(***************************************************************************)
(* Program constants.                                                      *)
(***************************************************************************)
BODYFLAG_STATIC_OBJECT == 1
BODYFLAG_KINEMATIC_OBJECT == 2
BODYFLAG_NORESPONSE_OBJECT == 4
BODYTYPE_STATIC == "static"
BODYTYPE_DYNAMIC == "dynamic"
BODYTYPE_KINEMATIC == "kinematic"

(***************************************************************************)
(* The entities of the scene and the bodies of the dynamics world.  Body b *)
(* of an entity carries the back-reference body.entity = b; OrphanBody is  *)
(* a body of the world with no back-reference (wb.entity is undefined).    *)
(***************************************************************************)
Entities == {1, 2, 3}
NoEntity == 0
OrphanBody == 4
NullBody == 5
Bodies == Entities \cup {OrphanBody}

EntityOf(b) == IF b \in Entities THEN b ELSE NoEntity

\* entity.getGuid(): the key of both registries.
Guid(e) == <<"guid", e>>

EventNames == {"collisionstart", "collisionend", "contact", "triggerenter", "triggerleave"}

\* The listener sets the environment gives an entity's collision component:
\* a script that listens to every event of the component, or none.
ListenerSets == { {}, EventNames }

\* The listener sets of the recorded scenario runs, fixed for a whole run.
ScenarioListenerSets ==
    { {}, {"collisionstart", "contact"}, {"triggerenter", "triggerleave"} }

\* The entities whose collision component the environment removes and adds.
Detachable == {3}

(***************************************************************************)
(* Vectors: pc.Vec3 and btVector3 are triples; set(x, y, z) and            *)
(* new pc.Vec3(x, y, z) build one from the three components read with      *)
(* x(), y(), z().                                                          *)
(***************************************************************************)
Vec3(x, y, z) == <<x, y, z>>
X(v) == v[1]
Y(v) == v[2]
Z(v) == v[3]

Vecs == { <<1, 0, 0>>, <<0, 1, 0>>, <<0, 0, 1>> }

\* A btManifoldPoint as the accessors of lines 461-465 read it.
BtPoints ==
    [ m_localPointA : Vecs, m_localPointB : Vecs, positionWorldOnA : Vecs,
      positionWorldOnB : Vecs, m_normalWorldOnB : Vecs ]

\* The k-th contact point the dispatcher's manifolds of the general model carry.
BtContact(k) ==
    [ m_localPointA |-> <<k, 0, 1>>, m_localPointB |-> <<k, 0, 2>>,
      positionWorldOnA |-> <<k, 1, 1>>, positionWorldOnB |-> <<k, 1, 2>>,
      m_normalWorldOnB |-> <<0, k, 3>> ]

(***************************************************************************)
(* The scene: what each entity is.  rigidbody / trigger are the entity's   *)
(* components, flags the collision flags of its body, and type, body,      *)
(* active, enabled, entityEnabled the fields the transform sync reads.     *)
(***************************************************************************)
Dynamic(act, en, entEn) ==
    [ rigidbody |-> TRUE, trigger |-> FALSE, flags |-> 0, type |-> BODYTYPE_DYNAMIC,
      body |-> TRUE, active |-> act, enabled |-> en, entityEnabled |-> entEn ]
Kinematic(act, en, entEn) ==
    [ rigidbody |-> TRUE, trigger |-> FALSE, flags |-> BODYFLAG_KINEMATIC_OBJECT,
      type |-> BODYTYPE_KINEMATIC,
      body |-> TRUE, active |-> act, enabled |-> en, entityEnabled |-> entEn ]
Static(act) ==
    [ rigidbody |-> TRUE, trigger |-> FALSE, flags |-> BODYFLAG_STATIC_OBJECT,
      type |-> BODYTYPE_STATIC,
      body |-> TRUE, active |-> act, enabled |-> TRUE, entityEnabled |-> TRUE ]
TriggerVolume ==
    [ rigidbody |-> FALSE, trigger |-> TRUE, flags |-> BODYFLAG_NORESPONSE_OBJECT,
      type |-> "none",
      body |-> FALSE, active |-> FALSE, enabled |-> FALSE, entityEnabled |-> TRUE ]

\* Two dynamic bodies (the second asleep) and a trigger volume.
TwoBodiesAndTrigger ==
    <<Dynamic(TRUE, TRUE, TRUE), Dynamic(FALSE, TRUE, TRUE), TriggerVolume>>
\* A kinematic body and two trigger volumes.
BodyAndTwoTriggers ==
    <<Kinematic(TRUE, TRUE, TRUE), TriggerVolume, TriggerVolume>>

Scenes == { TwoBodiesAndTrigger, BodyAndTwoTriggers }

\* this.dynamicsWorld before onLibraryLoaded, and the world of lines 287-290
\* with its gravity and the constraints added to it.
NoWorld == [created |-> FALSE, gravity |-> << >>, constraints |-> {}]
Gravity == << "0", "-9.82", "0" >>
World(gravity) == [created |-> TRUE, gravity |-> gravity, constraints |-> {}]

\* No onRemove has been called.
NoRemove == [entity |-> NoEntity, body |-> FALSE]

VARIABLES
    scene,                   \* the entities' components and bodies
    hasCollision,            \* entity -> whether entity.collision exists
    listeners,               \* entity -> the events entity.collision has listeners for
    systemContact,           \* whether the system has a listener for its "contact" event
    collisions,              \* the durable registry (line 12)
    frameCollisions,         \* the this-frame registry (line 13)
    contactPointPool,        \* consumption of this.contactPointPool
    contactResultPool,       \* consumption of this.contactResultPool
    singleContactResultPool, \* consumption of this.singleContactResultPool
    phase,                   \* "idle", or the handler that has just returned
    manifolds,               \* the manifolds the dispatcher reported to the last update
    log,                     \* the calls the last handler made, in order
    threw,                   \* the last handler ended with a TypeError
    before,                  \* the durable registry as the last update found it
    settled,                 \* the durable registry as the last completed update had left it
    emptyRun,                \* consecutive updates with no manifold, the last one included (2: two or more)
    rayInput,                \* what the ray test of the last raycastFirst reported
    rayResults,              \* the RaycastResults the last raycastFirst passed to its callback
    rayLive,                 \* native ray-query objects alive
    hist,                    \* a recorded run: one record per update
    ammo,                    \* whether the global Ammo is defined
    dynamicsWorld,           \* this.dynamicsWorld: NoWorld, or the world with its gravity
    rayTemps,                \* whether ammoRayStart and ammoRayEnd have been created
    subscribed,              \* whether onUpdate is bound to the 'update' event
    libraryLoaded,           \* onLibraryLoaded has run
    inWorld,                 \* the bodies added to the dynamics world
    destroyed,               \* the bodies whose native handle Ammo.destroy has freed
    removeCalls,             \* entity -> the calls of removeBody on its body so far
    destroyCalls,            \* entity -> the calls of Ammo.destroy on its body so far
    removeArg,               \* the component the last onRemove was called for
    hazard,                  \* the invalid native reads the last update made
    rayCreated,              \* native ray-query objects the last raycastFirst created
    rayCallback              \* how the callback of the last raycastFirst ended

\* What onLibraryLoaded decides.
libraryVars == << ammo, dynamicsWorld, rayTemps, subscribed, libraryLoaded >>

\* The bodies of the world and what onRemove has done to them.
bodyVars == << inWorld, destroyed, removeCalls, destroyCalls >>

\* What is observed of raycastFirst.
rayVars == << rayInput, rayResults, rayLive, rayCreated, rayCallback >>

vars ==
    << scene, hasCollision, listeners, systemContact, collisions, frameCollisions,
       contactPointPool, contactResultPool, singleContactResultPool, phase,
       manifolds, log, threw, before, settled, emptyRun, rayInput, rayResults,
       rayLive, hist, ammo, dynamicsWorld, rayTemps, subscribed, libraryLoaded,
       inWorld, destroyed, removeCalls, destroyCalls, removeArg, hazard,
       rayCreated, rayCallback >>


(***************************************************************************)
(* JavaScript helpers.                                                     *)
(***************************************************************************)
\* a & b on non-negative integers.
RECURSIVE BitAnd(_, _)
BitAnd(a, b) ==
    IF a = 0 \/ b = 0 THEN 0
    ELSE (a % 2) * (b % 2) + 2 * BitAnd(a \div 2, b \div 2)

\* Array.prototype.indexOf: the 0-based index of the first x, or -1.
RECURSIVE IndexFrom(_, _, _)
IndexFrom(s, x, k) ==
    IF k > Len(s) THEN -1
    ELSE IF s[k] = x THEN k - 1
    ELSE IndexFrom(s, x, k + 1)
IndexOf(s, x) == IndexFrom(s, x, 1)

\* A splice that removes nothing.
SpliceNothing(s, i) == s

\* others.splice(i, 1) at the 0-based index i.
Splice1(s, i) == SubSeq(s, 1, i) \o SubSeq(s, i + 2, Len(s))

(***************************************************************************)
(* A registry is a JavaScript object keyed by guid: the sequence of its    *)
(* entries in the order the keys were inserted (the order of for-in).      *)
(***************************************************************************)
RECURSIVE KeyFrom(_, _, _)
KeyFrom(reg, guid, k) ==
    IF k > Len(reg) THEN 0
    ELSE IF reg[k].guid = guid THEN k
    ELSE KeyFrom(reg, guid, k + 1)
\* The position of reg[guid], 0 when the key is absent.
KeyOf(reg, guid) == KeyFrom(reg, guid, 1)

\* reg[guid] = reg[guid] || {others: [], entity: entity}
Ensure(reg, entity) ==
    IF KeyOf(reg, Guid(entity)) # 0 THEN reg
    ELSE Append(reg, [guid |-> Guid(entity), entity |-> entity, others |-> <<>>])

\* The directed pairings a registry holds.
PairsOf(reg) ==
    UNION { { <<reg[k].entity, reg[k].others[i]>> : i \in 1..Len(reg[k].others) }
            : k \in 1..Len(reg) }

(***************************************************************************)
(* pc.AllocatePool: allocate() hands out the object at index `count` and   *)
(* advances the count, freeAll() resets the count to zero.                 *)
(***************************************************************************)
Allocate(count) == [index |-> count, count |-> count + 1]
FreeAll(count) == 0

(***************************************************************************)
(* Lines 458-500: the pooled result objects.                               *)
(***************************************************************************)
_createContactPointFromAmmo(contactPoint) ==
    [ localPoint |->
          Vec3(X(contactPoint.m_localPointA), Y(contactPoint.m_localPointA),
               Z(contactPoint.m_localPointA)),
      localPointOther |->
          Vec3(X(contactPoint.m_localPointB), Y(contactPoint.m_localPointB),
               Z(contactPoint.m_localPointB)),
      point |->
          Vec3(X(contactPoint.positionWorldOnA), Y(contactPoint.positionWorldOnA),
               Z(contactPoint.positionWorldOnA)),
      pointOther |->
          Vec3(X(contactPoint.positionWorldOnB), Y(contactPoint.positionWorldOnB),
               Z(contactPoint.positionWorldOnB)),
      normal |->
          Vec3(X(contactPoint.m_normalWorldOnB), Y(contactPoint.m_normalWorldOnB),
               Z(contactPoint.m_normalWorldOnB)) ]

\* A reverse contact point that is built like the forward one.
ReverseContactPointUnswapped(contactPoint) ==
    _createContactPointFromAmmo(contactPoint)

_createReverseContactPointFromAmmo(contactPoint) ==
    [ localPointOther |->
          Vec3(X(contactPoint.m_localPointA), Y(contactPoint.m_localPointA),
               Z(contactPoint.m_localPointA)),
      localPoint |->
          Vec3(X(contactPoint.m_localPointB), Y(contactPoint.m_localPointB),
               Z(contactPoint.m_localPointB)),
      pointOther |->
          Vec3(X(contactPoint.positionWorldOnA), Y(contactPoint.positionWorldOnA),
               Z(contactPoint.positionWorldOnA)),
      point |->
          Vec3(X(contactPoint.positionWorldOnB), Y(contactPoint.positionWorldOnB),
               Z(contactPoint.positionWorldOnB)),
      normal |->
          Vec3(X(contactPoint.m_normalWorldOnB), Y(contactPoint.m_normalWorldOnB),
               Z(contactPoint.m_normalWorldOnB)) ]

\* index is the pool slot the result lives in: two results are the same
\* object exactly when they are equal with the index.
_createSingleContactResult(index, a, b, contactPoint) ==
    [ index |-> index, a |-> a, b |-> b,
      localPointA |-> contactPoint.localPoint,
      localPointB |-> contactPoint.localPointOther,
      pointA |-> contactPoint.point,
      pointB |-> contactPoint.pointOther,
      normal |-> contactPoint.normal ]

_createContactResult(index, other, contacts) ==
    [ index |-> index, other |-> other, contacts |-> contacts ]

NoVec == <<0, 0, 0>>
NoContactResult == [ index |-> -1, other |-> NoEntity, contacts |-> <<>> ]
NoSingleContactResult ==
    [ index |-> -1, a |-> NoEntity, b |-> NoEntity, localPointA |-> NoVec,
      localPointB |-> NoVec, pointA |-> NoVec, pointB |-> NoVec, normal |-> NoVec ]

(***************************************************************************)
(* The entries of the log: one per call the handler makes.  `on` is the    *)
(* entity whose collision component fires (NoEntity: the system itself),   *)
(* `m` the 1-based index of the manifold being processed (0 outside the    *)
(* manifold loop).                                                         *)
(***************************************************************************)
Call(name, e) ==
    [ call |-> name, on |-> e, ev |-> "", ent |-> NoEntity,
      cr |-> NoContactResult, scr |-> NoSingleContactResult, m |-> 0 ]
FireEntity(e, name, other, i) ==
    [ call |-> "fire", on |-> e, ev |-> name, ent |-> other,
      cr |-> NoContactResult, scr |-> NoSingleContactResult, m |-> i ]
FireResult(e, name, result, i) ==
    [ call |-> "fire", on |-> e, ev |-> name, ent |-> NoEntity,
      cr |-> result, scr |-> NoSingleContactResult, m |-> i ]
FireSystem(name, result, i) ==
    [ call |-> "fire", on |-> NoEntity, ev |-> name, ent |-> NoEntity,
      cr |-> NoContactResult, scr |-> result, m |-> i ]
FreeAllCall(pool) ==
    [ call |-> "freeAll", on |-> NoEntity, ev |-> pool, ent |-> NoEntity,
      cr |-> NoContactResult, scr |-> NoSingleContactResult, m |-> 0 ]
\* pool.allocate() while the i-th manifold is processed.
AllocateCall(pool, i) ==
    [ call |-> "allocate", on |-> NoEntity, ev |-> pool, ent |-> NoEntity,
      cr |-> NoContactResult, scr |-> NoSingleContactResult, m |-> i ]
\* this._storeCollision(entity, other) and what it returned.
StoreCall(entity, other, isNewCollision, i) ==
    [ call |-> "_storeCollision", on |-> entity,
      ev |-> IF isNewCollision THEN "new" ELSE "known", ent |-> other,
      cr |-> NoContactResult, scr |-> NoSingleContactResult, m |-> i ]

(***************************************************************************)
(* Lines 441-456: _storeCollision.  Each value the function computes once  *)
(* and uses several times is the parameter of the definition that uses it. *)
(***************************************************************************)
\* A registration that takes every pairing for a new one.
IsNewCollisionAlways(others, other) == TRUE

\* Line 447: whether `other` is not yet among the others of entity's entry.
IsNewCollision(others, other) == IndexOf(others, other) < 0

\* Lines 447-450 and 453, with the entries ensured (c1, f1), entity's
\* durable entry found (ck) and the test of line 447 made.
Stored(c1, ck, f1, guid, other, isNewCollision) ==
    [ collisions |->
          IF isNewCollision THEN [c1 EXCEPT ![ck].others = Append(@, other)] ELSE c1,
      frameCollisions |-> [f1 EXCEPT ![KeyOf(f1, guid)].others = Append(@, other)],
      isNewCollision |-> isNewCollision ]

\* A registration that decides newness against the this-frame registry.
StoreAtAgainstFrame(c1, ck, f1, guid, other) ==
    Stored(c1, ck, f1, guid, other, IsNewCollision(f1[KeyOf(f1, guid)].others, other))

StoreAt(c1, ck, f1, guid, other) ==
    Stored(c1, ck, f1, guid, other, IsNewCollision(c1[ck].others, other))

\* Lines 445 and 452 done: c1 and f1 hold an entry for guid.
StoreIn(c1, f1, guid, other) == StoreAt(c1, KeyOf(c1, guid), f1, guid, other)

_storeCollision(coll, frame, entity, other) ==
    StoreIn(Ensure(coll, entity), Ensure(frame, entity), Guid(entity), other)


(***************************************************************************)
(* What the update reads of an entity.                                     *)
(***************************************************************************)
\* entity.collision.hasEvent(name); the caller has checked entity.collision.
HasEvent(e, name) == name \in listeners[e]
\* body.getCollisionFlags() of the body of entity e.
Flags(e) == scene[e].flags
NoResponse(flags) == BitAnd(flags, BODYFLAG_NORESPONSE_OBJECT) # 0

(***************************************************************************)
(* Lines 509-541: _cleanOldCollisions.                                     *)
(***************************************************************************)
\* A test of line 520 without its first disjunct: an entity with no entry in
\* the this-frame registry keeps its pairings.
EndedOnlyWithFrameEntry(frame, guid, other) ==
    /\ KeyOf(frame, guid) # 0
    /\ IndexOf(frame[KeyOf(frame, guid)].others, other) < 0

\* Line 520: the pairing (guid, other) is not in the this-frame registry.
Ended(frame, guid, other) ==
    \/ KeyOf(frame, guid) = 0
    \/ IndexOf(frame[KeyOf(frame, guid)].others, other) < 0

\* Reconciliation without the triggerleave branch of lines 528-531.
EndEventsRigidOnly(entity, other) ==
    IF hasCollision[entity] /\ hasCollision[other]
       /\ scene[entity].rigidbody /\ scene[other].rigidbody
    THEN << FireEntity(entity, "collisionend", other, 0) >>
    ELSE << >>

\* Reconciliation without the test of line 524.
EndEventsWithoutComponentTest(entity, other) ==
    IF scene[entity].rigidbody /\ scene[other].rigidbody
    THEN << FireEntity(entity, "collisionend", other, 0) >>
    ELSE IF scene[entity].trigger
         THEN << FireEntity(entity, "triggerleave", other, 0) >>
         ELSE << >>

\* Lines 524-532: the event an ended pairing fires, as a sequence of calls.
EndEvents(entity, other) ==
    IF hasCollision[entity] /\ hasCollision[other]
    THEN IF scene[entity].rigidbody /\ scene[other].rigidbody
         THEN << FireEntity(entity, "collisionend", other, 0) >>
         ELSE IF scene[entity].trigger
              THEN << FireEntity(entity, "triggerleave", other, 0) >>
              ELSE << >>
    ELSE << >>

\* A loop over the others from the first to the last: after a splice the
\* next index skips the element that has moved into the place of the
\* removed one.
RECURSIVE ForwardFrom(_, _, _, _, _)
ForwardFrom(frame, entry, others, j, calls) ==
    IF j > Len(others) THEN [others |-> others, calls |-> calls]
    ELSE IF Ended(frame, entry.guid, others[j])
         THEN ForwardFrom(frame, entry, Splice1(others, j - 1), j + 1,
                          calls \o EndEvents(entry.entity, others[j]))
         ELSE ForwardFrom(frame, entry, others, j + 1, calls)

CleanOthersForward(frame, entry, others, i, calls) ==
    ForwardFrom(frame, entry, others, 1, calls)

\* Lines 516-534: the loop while (i--) over one entry's others; i is the
\* 0-based index still to be visited plus one.
RECURSIVE CleanOthers(_, _, _, _, _)
CleanOthers(frame, entry, others, i, calls) ==
    IF i = 0 THEN [others |-> others, calls |-> calls]
    ELSE IF Ended(frame, entry.guid, others[i])
         THEN CleanOthers(frame, entry, Splice1(others, i - 1), i - 1,
                          calls \o EndEvents(entry.entity, others[i]))
         ELSE CleanOthers(frame, entry, others, i - 1, calls)

\* Reconciliation without the deletion of lines 536-538.
KeepEntryAlways(kept, entry, others) ==
    Append(kept, [entry EXCEPT !.others = others])

\* Lines 536-538: an entry left with no others is deleted; kept are the
\* entries the loop has left in the registry so far.
KeepEntry(kept, entry, others) ==
    IF Len(others) = 0 THEN kept
    ELSE Append(kept, [entry EXCEPT !.others = others])

\* Lines 512-538 for one entry, whose loop over the others gave r.
AfterEntry(acc, entry, r) ==
    [ collisions |-> KeepEntry(acc.collisions, entry, r.others),
      calls |-> acc.calls \o r.calls ]

\* Lines 510-540: the for-in loop over the keys the registry had when the
\* loop began; acc holds the entries kept and the calls made so far.
RECURSIVE CleanEntries(_, _, _, _)
CleanEntries(frame, coll, k, acc) ==
    IF k > Len(coll) THEN acc
    ELSE CleanEntries(frame, coll, k + 1,
                      AfterEntry(acc, coll[k],
                                 CleanOthers(frame, coll[k], coll[k].others,
                                             Len(coll[k].others), << >>)))

_cleanOldCollisions(coll, frame) ==
    CleanEntries(frame, coll, 1, [collisions |-> << >>, calls |-> << >>])

(***************************************************************************)
(* Lines 578-720: onUpdate.  The state the handler threads through its     *)
(* loops is a record st: the two registries, the three pool counts, the    *)
(* calls made so far, and whether a TypeError has ended the handler.       *)
(***************************************************************************)
\* A transform sync that looks at the type of the component only.
SyncCallsWhateverState(e) ==
    IF scene[e].rigidbody
    THEN IF scene[e].type = BODYTYPE_DYNAMIC
         THEN << Call("syncBodyToEntity", e) >>
         ELSE IF scene[e].type = BODYTYPE_KINEMATIC
              THEN << Call("_updateKinematic", e) >>
              ELSE << >>
    ELSE << >>

\* Lines 585-599: the transform sync of the components of this.store.
SyncCalls(e) ==
    IF scene[e].rigidbody /\ scene[e].body /\ scene[e].active /\ scene[e].enabled
       /\ scene[e].entityEnabled
    THEN IF scene[e].type = BODYTYPE_DYNAMIC
         THEN << Call("syncBodyToEntity", e) >>
         ELSE IF scene[e].type = BODYTYPE_KINEMATIC
              THEN << Call("_updateKinematic", e) >>
              ELSE << >>
    ELSE << >>

RECURSIVE SyncFrom(_)
SyncFrom(e) == IF e \notin Entities THEN << >> ELSE SyncCalls(e) \o SyncFrom(e + 1)

\* Lines 663-677: one contact point of the manifold.  perEntity is
\* e0Events || e1Events.
ContactStep(st, btContactPoint, i, e0, e1, perEntity, globalEvents) ==
    [st EXCEPT
       !.cp = IF perEntity THEN Allocate(Allocate(@).count).count
              ELSE Allocate(@).count,
       !.forward = IF perEntity
                   THEN Append(@, _createContactPointFromAmmo(btContactPoint))
                   ELSE @,
       !.reverse = IF perEntity
                   THEN Append(@, _createReverseContactPointFromAmmo(btContactPoint))
                   ELSE @,
       !.scr = IF globalEvents THEN Allocate(@).count ELSE @,
       !.log = @ \o << AllocateCall("contactPointPool", i) >>
                 \o (IF perEntity
                     THEN << AllocateCall("contactPointPool", i) >>
                     ELSE << >>)
                 \o (IF globalEvents
                     THEN << AllocateCall("singleContactResultPool", i),
                             FireSystem("contact",
                                 _createSingleContactResult(
                                     Allocate(st.scr).index, e0, e1,
                                     _createContactPointFromAmmo(btContactPoint)),
                                 i) >>
                     ELSE << >>)]

\* Lines 662-678: the loop over the manifold's contact points.
RECURSIVE ContactLoop(_, _, _, _, _, _, _, _)
ContactLoop(st, contacts, j, i, e0, e1, perEntity, globalEvents) ==
    IF j > Len(contacts) THEN st
    ELSE ContactLoop(ContactStep(st, contacts[j], i, e0, e1, perEntity, globalEvents),
                     contacts, j + 1, i, e0, e1, perEntity, globalEvents)

\* Lines 684-691 (side e0) and 698-705 (side e1), with the ContactResult
\* built (result) and the pairing registered (r).
SideEvents(st, entity, result, r, i) ==
    [st EXCEPT
       !.cr = Allocate(@).count,
       !.coll = r.collisions,
       !.frame = r.frameCollisions,
       !.log = @ \o << AllocateCall("contactResultPool", i) >>
                 \o (IF hasCollision[entity]
                     THEN << FireResult(entity, "contact", result, i) >>
                     ELSE << >>)
                 \o << StoreCall(entity, result.other, r.isNewCollision, i) >>
                 \o (IF r.isNewCollision /\ hasCollision[entity]
                     THEN << FireResult(entity, "collisionstart", result, i) >>
                     ELSE << >>)]

\* Lines 680-693 (side e0) and 695-706 (side e1): contact, then the
\* registration of the pairing, then collisionstart when it is new.
CollisionSide(st, entity, other, contacts, i) ==
    SideEvents(st, entity, _createContactResult(Allocate(st.cr).index, other, contacts),
               _storeCollision(st.coll, st.frame, entity, other), i)

\* Lines 680-693.
Side0(st, i, e0, e1, e0Events) ==
    IF e0Events THEN CollisionSide(st, e0, e1, st.forward, i) ELSE st

\* Lines 695-706.
Side1(st, i, e0, e1, e1Events) ==
    IF e1Events THEN CollisionSide(st, e1, e0, st.reverse, i) ELSE st

\* The collision path with side e1 served before side e0.
CollisionEventsSideBFirst(st, man, i, e0, e1, e0Events, e1Events, globalEvents) ==
    IF globalEvents \/ e0Events \/ e1Events
    THEN Side0(Side1(ContactLoop([st EXCEPT !.forward = << >>, !.reverse = << >>],
                                 man.contacts, 1, i, e0, e1, e0Events \/ e1Events,
                                 globalEvents),
                     i, e0, e1, e1Events),
               i, e0, e1, e0Events)
    ELSE st

\* A collision path that goes through the contact points whoever listens.
CollisionEventsUnconditional(st, man, i, e0, e1, e0Events, e1Events, globalEvents) ==
    Side1(Side0(ContactLoop([st EXCEPT !.forward = << >>, !.reverse = << >>],
                            man.contacts, 1, i, e0, e1, e0Events \/ e1Events,
                            globalEvents),
                i, e0, e1, e0Events),
          i, e0, e1, e1Events)

\* Lines 661-707, with the three tests of lines 657-659 made.
CollisionEvents(st, man, i, e0, e1, e0Events, e1Events, globalEvents) ==
    IF globalEvents \/ e0Events \/ e1Events
    THEN Side1(Side0(ContactLoop([st EXCEPT !.forward = << >>, !.reverse = << >>],
                                 man.contacts, 1, i, e0, e1, e0Events \/ e1Events,
                                 globalEvents),
                     i, e0, e1, e0Events),
               i, e0, e1, e1Events)
    ELSE st

\* Lines 656-708: the collision path of one manifold.  Lines 657 and 658
\* read e0.collision.hasEvent and e1.collision.hasEvent unguarded.
CollisionPath(st, man, i, e0, e1) ==
    IF ~hasCollision[e0] \/ ~hasCollision[e1]
    THEN [st EXCEPT !.threw = TRUE]
    ELSE CollisionEvents(st, man, i, e0, e1,
             HasEvent(e0, "collisionstart") \/ HasEvent(e0, "collisionend")
                 \/ HasEvent(e0, "contact"),
             HasEvent(e1, "collisionstart") \/ HasEvent(e1, "collisionend")
                 \/ HasEvent(e1, "contact"),
             systemContact)

\* A trigger path that fires triggerenter whatever the other body is.
TriggerEventsUnguarded(st, entity, other, otherFlags, r, i) ==
    [st EXCEPT
       !.coll = r.collisions,
       !.frame = r.frameCollisions,
       !.log = @ \o << StoreCall(entity, other, r.isNewCollision, i) >>
                 \o (IF r.isNewCollision /\ hasCollision[entity]
                     THEN << FireEntity(entity, "triggerenter", other, i) >>
                     ELSE << >>)]

\* Lines 641-645 and 650-654, with the pairing registered (r).
TriggerEvents(st, entity, other, otherFlags, r, i) ==
    [st EXCEPT
       !.coll = r.collisions,
       !.frame = r.frameCollisions,
       !.log = @ \o << StoreCall(entity, other, r.isNewCollision, i) >>
                 \o (IF r.isNewCollision /\ hasCollision[entity] /\ ~NoResponse(otherFlags)
                     THEN << FireEntity(entity, "triggerenter", other, i) >>
                     ELSE << >>)]

\* Lines 638-646 (side e0) and 648-655 (side e1) of the trigger path.
TriggerSide(st, entity, other, otherFlags, events, i) ==
    IF events
    THEN TriggerEvents(st, entity, other, otherFlags,
                       _storeCollision(st.coll, st.frame, entity, other), i)
    ELSE st

\* Lines 632-655: the trigger path of one manifold.  Lines 635 and 636
\* read e0.collision.hasEvent and e1.collision.hasEvent unguarded.
TriggerPath(st, i, e0, e1, flags0, flags1) ==
    IF ~hasCollision[e0] \/ ~hasCollision[e1]
    THEN [st EXCEPT !.threw = TRUE]
    ELSE TriggerSide(
             TriggerSide(st, e0, e1, flags1,
                         HasEvent(e0, "triggerenter") \/ HasEvent(e0, "triggerleave"), i),
             e1, e0, flags0,
             HasEvent(e1, "triggerenter") \/ HasEvent(e1, "triggerleave"), i)

\* A manifold loop that goes on with a manifold whose entity is unresolved:
\* the first read of its collision component is a TypeError.
ProcessResolvedUnresolvedThrows(st, man, i, e0, e1) ==
    IF e0 = NoEntity \/ e1 = NoEntity THEN [st EXCEPT !.threw = TRUE]
    ELSE IF Len(man.contacts) > 0
         THEN IF NoResponse(Flags(e0)) \/ NoResponse(Flags(e1))
              THEN TriggerPath(st, i, e0, e1, Flags(e0), Flags(e1))
              ELSE CollisionPath(st, man, i, e0, e1)
         ELSE st

\* Lines 618-710: the manifold between the entities e0 and e1 (NoEntity:
\* the body has no entity).
ProcessResolved(st, man, i, e0, e1) ==
    IF e0 = NoEntity \/ e1 = NoEntity THEN st
    ELSE IF Len(man.contacts) > 0
         THEN IF NoResponse(Flags(e0)) \/ NoResponse(Flags(e1))
              THEN TriggerPath(st, i, e0, e1, Flags(e0), Flags(e1))
              ELSE CollisionPath(st, man, i, e0, e1)
         ELSE st

\* Lines 610-710: the body of the manifold loop for the i-th manifold.
ProcessManifold(st, man, i) ==
    ProcessResolved(st, man, i, EntityOf(man.body0), EntityOf(man.body1))

\* Lines 609-711: the manifold loop; a TypeError ends it.
RECURSIVE ManifoldLoop(_, _, _)
ManifoldLoop(st, ms, i) ==
    IF i > Len(ms) \/ st.threw THEN st
    ELSE ManifoldLoop(ProcessManifold(st, ms[i], i), ms, i + 1)

\* The end of the update with the pools reset before reconciliation's events.
ReconciledResetFirst(st, c) ==
    [st EXCEPT
       !.coll = c.collisions,
       !.cp = FreeAll(@), !.cr = FreeAll(@), !.scr = FreeAll(@),
       !.log = @ \o << FreeAllCall("contactPointPool"), FreeAllCall("contactResultPool"),
                       FreeAllCall("singleContactResultPool") >>
                 \o c.calls]

\* Lines 714-719, with reconciliation's outcome c: its events, then the
\* reset of the three pools.
Reconciled(st, c) ==
    [st EXCEPT
       !.coll = c.collisions,
       !.cp = FreeAll(@), !.cr = FreeAll(@), !.scr = FreeAll(@),
       !.log = @ \o c.calls
                 \o << FreeAllCall("contactPointPool"), FreeAllCall("contactResultPool"),
                       FreeAllCall("singleContactResultPool") >>]

\* Lines 713-719: reconciliation, then the reset of the three pools.
Finish(st) == Reconciled(st, _cleanOldCollisions(st.coll, st.frame))

\* Lines 713-719 are reached only if the manifold loop did not throw.
Completed(st) == IF st.threw THEN st ELSE Finish(st)

\* The handler's state when the manifold loop begins: the world stepped
\* (line 582), the transforms synchronized (lines 585-599) and the
\* this-frame registry emptied (line 606).
Stepped ==
    [ coll |-> collisions, frame |-> << >>,
      cp |-> contactPointPool, cr |-> contactResultPool,
      scr |-> singleContactResultPool,
      log |-> << Call("stepSimulation", NoEntity) >> \o SyncFrom(1),
      threw |-> FALSE, forward |-> << >>, reverse |-> << >> ]

\* Line 582 with this.dynamicsWorld undefined: a TypeError before anything
\* is done.
NotStepped ==
    [ coll |-> collisions, frame |-> frameCollisions,
      cp |-> contactPointPool, cr |-> contactResultPool,
      scr |-> singleContactResultPool,
      log |-> << >>,
      threw |-> TRUE, forward |-> << >>, reverse |-> << >> ]

\* The whole handler on the manifold list ms.
UpdateResult(ms) ==
    IF dynamicsWorld = NoWorld THEN NotStepped
    ELSE Completed(ManifoldLoop(Stepped, ms, 1))


(***************************************************************************)
(* The manifolds the dispatcher may report.                                *)
(***************************************************************************)
Manifold(b0, b1, contacts) == [body0 |-> b0, body1 |-> b1, contacts |-> contacts]

\* Bodies 1 and 2 touching at two points, and bodies 3 and 2 at one.
Touching12 == Manifold(1, 2, << BtContact(1), BtContact(2) >>)
Touching32 == Manifold(3, 2, << BtContact(2) >>)

ManifoldSet ==
    { Touching12,
      Touching32,
      Manifold(3, 2, << >>),
      Manifold(3, OrphanBody, << BtContact(1) >>) }

\* The manifold lists of one update: every list of at most MaxManifolds
\* manifolds, in every order, the same manifold several times included.
ManifoldLists == UNION { [1..n -> ManifoldSet] : n \in 0..MaxManifolds }

(***************************************************************************)
(* The state after construction (lines 12-13, 136-138), in a scene whose   *)
(* entities have collision components without listeners.                   *)
(***************************************************************************)
NoRay == [hit |-> FALSE, body |-> NullBody, point |-> NoVec, normal |-> NoVec]

Constructed ==
    /\ collisions = << >>
    /\ frameCollisions = << >>
    /\ contactPointPool = 0
    /\ contactResultPool = 0
    /\ singleContactResultPool = 0
    /\ phase = "idle"
    /\ manifolds = << >>
    /\ log = << >>
    /\ threw = FALSE
    /\ before = << >>
    /\ settled = << >>
    /\ emptyRun = 0
    /\ rayInput = NoRay
    /\ rayResults = << >>
    /\ rayLive = 0
    /\ rayCreated = 0
    /\ rayCallback = "none"
    /\ hist = << >>
    /\ destroyed = {}
    /\ removeCalls = [e \in Entities |-> 0]
    /\ destroyCalls = [e \in Entities |-> 0]
    /\ removeArg = NoRemove
    /\ hazard = {}

\* The state onLibraryLoaded (lines 280-299) leaves when Ammo is defined,
\* with every body of the scene added to the world (lines 347-355).
Loaded ==
    /\ ammo = TRUE
    /\ dynamicsWorld = World(Gravity)
    /\ rayTemps = TRUE
    /\ subscribed = TRUE
    /\ libraryLoaded = TRUE
    /\ inWorld = Bodies

Init ==
    /\ scene \in Scenes
    /\ hasCollision = [e \in Entities |-> TRUE]
    /\ listeners = [e \in Entities |-> {}]
    /\ systemContact = FALSE
    /\ Constructed
    /\ Loaded

(***************************************************************************)
(* onUpdate (lines 578-720) on the manifold list ms.  `record` says        *)
(* whether the run is being recorded in hist.                              *)
(***************************************************************************)
Fired(calls) == SelectSeq(calls, LAMBDA c : c.call = "fire")

\* What the handler leaves behind: r is the record its loops ended with.
Commit(r, ms, record) ==
    /\ collisions' = r.coll
    /\ frameCollisions' = r.frame
    /\ contactPointPool' = r.cp
    /\ contactResultPool' = r.cr
    /\ singleContactResultPool' = r.scr
    /\ log' = r.log
    /\ threw' = r.threw
    /\ hist' = IF record
               THEN Append(hist, [manifolds |-> ms, fired |-> Fired(r.log)])
               ELSE hist

\* The bodies of the manifolds the dispatcher reports are bodies of the world.
ManifoldsInWorld(ms) ==
    \A i \in DOMAIN ms : ms[i].body0 \in inWorld /\ ms[i].body1 \in inWorld

OnUpdate(ms, record) ==
    /\ phase = "idle"
    /\ subscribed
    /\ ManifoldsInWorld(ms)
    /\ contactPointPool <= MaxLeaked
    /\ contactResultPool <= MaxLeaked
    /\ singleContactResultPool <= MaxLeaked
    /\ Commit(UpdateResult(ms), ms, record)
    /\ phase' = "onUpdate"
    /\ manifolds' = ms
    /\ before' = collisions
    /\ emptyRun' = IF ms = << >> THEN (IF emptyRun = 0 THEN 1 ELSE 2) ELSE 0
    /\ removeArg' = NoRemove
    /\ hazard' = {}
    /\ UNCHANGED << scene, hasCollision, listeners, systemContact, settled >>
    /\ UNCHANGED << libraryVars, bodyVars, rayVars >>

Tick == \E ms \in ManifoldLists : OnUpdate(ms, FALSE)

\* The handler has returned to the main loop: what was observed of it is dropped.
Return ==
    /\ phase # "idle"
    /\ phase' = "idle"
    /\ manifolds' = << >>
    /\ log' = << >>
    /\ threw' = FALSE
    /\ before' = << >>
    /\ settled' = IF phase = "onUpdate" /\ ~threw THEN collisions ELSE settled
    /\ rayInput' = NoRay
    /\ rayResults' = << >>
    /\ rayCreated' = 0
    /\ rayCallback' = "none"
    /\ removeArg' = NoRemove
    /\ hazard' = {}
    /\ UNCHANGED << scene, hasCollision, listeners, systemContact, collisions,
                    frameCollisions, contactPointPool, contactResultPool,
                    singleContactResultPool, emptyRun, rayLive, hist >>
    /\ UNCHANGED << libraryVars, bodyVars >>

(***************************************************************************)
(* raycastFirst (lines 408-431).  ray is what the world's ray test reports:*)
(* whether it hit, the body castObject returns (NullBody: none), and the   *)
(* hit point and normal.                                                   *)
(***************************************************************************)
RaycastResult(entity, point, normal) ==
    [entity |-> entity, point |-> point, normal |-> normal]

\* Lines 414-428: the calls of the callback.
RaycastCallbacks(ray) ==
    IF ray.hit
    THEN IF ray.body # NullBody
         THEN << RaycastResult(EntityOf(ray.body),
                               Vec3(X(ray.point), Y(ray.point), Z(ray.point)),
                               Vec3(X(ray.normal), Y(ray.normal), Z(ray.normal))) >>
         ELSE << >>
    ELSE << >>

RayTests ==
    { NoRay } \cup
    { [hit |-> TRUE, body |-> b, point |-> pn[1], normal |-> pn[2]] :
        b \in {2, OrphanBody, NullBody}, pn \in { << <<1, 0, 0>>, <<0, 1, 0>> >> } }

\* How the callback the caller passed ends when it is called.
CallbackOutcomes == {"returns", "throws"}

\* Line 409 with ammoRayStart undefined: a TypeError before the query
\* object of line 411 is created.
RayNotCast ==
    /\ rayResults' = << >>
    /\ rayCallback' = "none"
    /\ rayCreated' = 0
    /\ rayLive' = rayLive
    /\ threw' = TRUE

\* Lines 411-430, the callback having been called with `results`: line 430
\* is reached only if the callback returned.
RayCast(results, callback) ==
    /\ rayResults' = results
    /\ rayCallback' = IF results = << >> THEN "none" ELSE callback
    /\ rayCreated' = 1
    /\ rayLive' = IF results # << >> /\ callback = "throws"
                  THEN rayLive + 1
                  ELSE (rayLive + 1) - 1
    /\ threw' = (results # << >> /\ callback = "throws")

raycastFirst(ray, callback) ==
    /\ phase = "idle"
    /\ ray.hit => ray.body \in inWorld \cup {NullBody}
    /\ phase' = "raycastFirst"
    /\ rayInput' = ray
    /\ IF rayTemps THEN RayCast(RaycastCallbacks(ray), callback) ELSE RayNotCast
    /\ UNCHANGED << scene, hasCollision, listeners, systemContact, collisions,
                    frameCollisions, contactPointPool, contactResultPool,
                    singleContactResultPool, manifolds, log, before, settled,
                    emptyRun, hist, removeArg, hazard >>
    /\ UNCHANGED << libraryVars, bodyVars >>

\* A raycast whose callback returns.
Raycast == \E ray \in RayTests : raycastFirst(ray, "returns")

(***************************************************************************)
(* The environment between two handlers: listeners are added to and        *)
(* removed from an entity's collision component and from the system, and   *)
(* collision components are added and removed.                             *)
(***************************************************************************)
SetListeners ==
    \E e \in Entities, ls \in ListenerSets :
        /\ phase = "idle"
        /\ hasCollision[e]
        /\ ls # listeners[e]
        /\ listeners' = [listeners EXCEPT ![e] = ls]
        /\ UNCHANGED << scene, hasCollision, systemContact, collisions, frameCollisions,
                        contactPointPool, contactResultPool, singleContactResultPool,
                        phase, manifolds, log, threw, before, settled, emptyRun,
                        hist, removeArg, hazard >>
        /\ UNCHANGED << libraryVars, bodyVars, rayVars >>

SetCollisionComponent ==
    \E e \in Detachable :
        /\ phase = "idle"
        /\ hasCollision' = [hasCollision EXCEPT ![e] = ~hasCollision[e]]
        /\ listeners' = [listeners EXCEPT ![e] = {}]
        /\ UNCHANGED << scene, systemContact, collisions, frameCollisions,
                        contactPointPool, contactResultPool, singleContactResultPool,
                        phase, manifolds, log, threw, before, settled, emptyRun,
                        hist, removeArg, hazard >>
        /\ UNCHANGED << libraryVars, bodyVars, rayVars >>

SetSystemContact ==
    /\ phase = "idle"
    /\ systemContact' = ~systemContact
    /\ UNCHANGED << scene, hasCollision, listeners, collisions, frameCollisions,
                    contactPointPool, contactResultPool, singleContactResultPool,
                    phase, manifolds, log, threw, before, settled, emptyRun,
                    hist, removeArg, hazard >>
    /\ UNCHANGED << libraryVars, bodyVars, rayVars >>

Next ==
    \/ Tick
    \/ Return
    \/ Raycast
    \/ SetListeners
    \/ SetCollisionComponent
    \/ SetSystemContact

Spec == Init /\ [][Next]_vars

(***************************************************************************)
(* onLibraryLoaded (lines 280-299).                                        *)
(***************************************************************************)
\* A library load that leaves the update handler bound whatever it finds.
AfterLibraryKeepsBound(bound, available) == bound

\* Lines 282 and 297: the update handler is unbound when Ammo is undefined.
AfterLibrary(bound, available) == IF available THEN bound ELSE FALSE

OnLibraryLoaded ==
    /\ phase = "idle"
    /\ ~libraryLoaded
    /\ libraryLoaded' = TRUE
    /\ dynamicsWorld' = IF ammo THEN World(Gravity) ELSE dynamicsWorld
    /\ rayTemps' = IF ammo THEN TRUE ELSE rayTemps
    /\ subscribed' = AfterLibrary(subscribed, ammo)
    /\ phase' = "onLibraryLoaded"
    /\ UNCHANGED << scene, hasCollision, listeners, systemContact, collisions,
                    frameCollisions, contactPointPool, contactResultPool,
                    singleContactResultPool, manifolds, log, threw, before, settled,
                    emptyRun, hist, removeArg, hazard, ammo >>
    /\ UNCHANGED << bodyVars, rayVars >>

(***************************************************************************)
(* addBody (lines 347-355), called by the component that has created body  *)
(* b with Ammo; the component's data.body refers to the body once it is    *)
(* added.  With this.dynamicsWorld undefined line 351 is a TypeError.      *)
(***************************************************************************)
WithBody(sc, b, owned) ==
    IF b \in Entities THEN [sc EXCEPT ![b].body = owned /\ sc[b].rigidbody] ELSE sc

addBody(b) ==
    /\ phase = "idle"
    /\ ammo
    /\ b \notin inWorld
    /\ b \notin destroyed
    /\ phase' = "addBody"
    /\ threw' = ~dynamicsWorld.created
    /\ inWorld' = IF dynamicsWorld.created THEN inWorld \cup {b} ELSE inWorld
    /\ scene' = WithBody(scene, b, dynamicsWorld.created)
    /\ UNCHANGED << hasCollision, listeners, systemContact, collisions,
                    frameCollisions, contactPointPool, contactResultPool,
                    singleContactResultPool, manifolds, log, before, settled,
                    emptyRun, hist, removeArg, hazard, destroyed, removeCalls,
                    destroyCalls >>
    /\ UNCHANGED << libraryVars, rayVars >>

AddBody == \E b \in Bodies : addBody(b)

(***************************************************************************)
(* onRemove (lines 338-345) for the rigid body component of entity e.      *)
(***************************************************************************)
\* A handler that takes every component for one that owns a body.
HasBodyAlways(data) == TRUE

\* Line 339: if (data.body).
HasBody(data) == data.body

\* Lines 340-341 and 344 for the body of entity e.
Released(e) ==
    /\ inWorld' = inWorld \ {e}
    /\ destroyed' = destroyed \cup {e}
    /\ removeCalls' = [removeCalls EXCEPT ![e] = @ + 1]
    /\ destroyCalls' = [destroyCalls EXCEPT ![e] = @ + 1]
    /\ scene' = [scene EXCEPT ![e].body = FALSE]

\* A handler that also drops the removed entity's entry from both registries.
onRemovePurging(e) ==
    /\ phase = "idle"
    /\ scene[e].rigidbody
    /\ phase' = "onRemove"
    /\ removeArg' = [entity |-> e, body |-> scene[e].body]
    /\ threw' = FALSE
    /\ IF HasBody(scene[e])
       THEN /\ Released(e)
            /\ log' = << Call("removeBody", e), Call("destroy", e),
                         Call("data.body = null", e) >>
       ELSE /\ scene' = [scene EXCEPT ![e].body = FALSE]
            /\ log' = << Call("data.body = null", e) >>
            /\ UNCHANGED bodyVars
    /\ collisions' = SelectSeq(collisions, LAMBDA entry : entry.entity # e)
    /\ frameCollisions' = SelectSeq(frameCollisions, LAMBDA entry : entry.entity # e)
    /\ UNCHANGED << hasCollision, listeners, systemContact,
                    contactPointPool, contactResultPool,
                    singleContactResultPool, manifolds, before, settled, emptyRun,
                    hist, hazard >>
    /\ UNCHANGED << libraryVars, rayVars >>

onRemove(e) ==
    /\ phase = "idle"
    /\ scene[e].rigidbody
    /\ phase' = "onRemove"
    /\ removeArg' = [entity |-> e, body |-> scene[e].body]
    /\ threw' = FALSE
    /\ IF HasBody(scene[e])
       THEN /\ Released(e)
            /\ log' = << Call("removeBody", e), Call("destroy", e),
                         Call("data.body = null", e) >>
       ELSE /\ scene' = [scene EXCEPT ![e].body = FALSE]
            /\ log' = << Call("data.body = null", e) >>
            /\ UNCHANGED bodyVars
    /\ UNCHANGED << hasCollision, listeners, systemContact, collisions,
                    frameCollisions, contactPointPool, contactResultPool,
                    singleContactResultPool, manifolds, before, settled, emptyRun,
                    hist, hazard >>
    /\ UNCHANGED << libraryVars, rayVars >>

OnRemove == \E e \in Entities : onRemove(e)

(***************************************************************************)
(* An update during which a listener removes a body: the listener of the   *)
(* last event fired for the k-th manifold calls onRemove for entity v.     *)
(* The world then releases the manifolds of v's body, so the dispatcher    *)
(* holds fewer manifolds than numManifolds, read at line 603, says; line   *)
(* 610 goes on reading the indices up to numManifolds.  A read past the    *)
(* dispatcher's list is undefined in the native code: it returns what the  *)
(* slot held before ("stale"), a manifold whose bodies resolve to no       *)
(* entity ("empty"), or it aborts the update ("abort").                    *)
(***************************************************************************)
ReadOutcomes == {"stale", "empty", "abort"}

Involves(man, b) == man.body0 = b \/ man.body1 = b

\* The dispatcher's manifolds once body b has left the world.
Without(ms, b) == SelectSeq(ms, LAMBDA man : ~Involves(man, b))

\* Line 610 for the 1-based index i: disp is the dispatcher's list now, ms
\* the list it held when line 603 read numManifolds.
ReadAt(ms, disp, i, outcome) ==
    IF i <= Len(disp) THEN disp[i]
    ELSE IF outcome = "stale" THEN ms[i]
    ELSE Manifold(OrphanBody, OrphanBody, << >>)

\* The last index the loop reads: numManifolds, or the end of the
\* dispatcher's list when the first read past it aborts.
LastRead(ms, disp, k, outcome) ==
    IF outcome = "abort" /\ Len(ms) > k
    THEN (IF Len(disp) > k THEN Len(disp) ELSE k)
    ELSE Len(ms)

\* The manifolds the iterations of the loop read, the first k before the
\* removal and the others after it.
AsRead(ms, disp, k, last, outcome) ==
    [ i \in 1..last |-> IF i <= k THEN ms[i] ELSE ReadAt(ms, disp, i, outcome) ]

\* The loop has read past the end of the dispatcher's list.
ReadPastEnd(ms, disp, k) == Len(ms) > k /\ Len(disp) < Len(ms)

\* Lines 609-719 on the manifolds the loop has read.
RemovalResult(read, aborted) ==
    IF aborted
    THEN [ManifoldLoop(Stepped, read, 1) EXCEPT !.threw = TRUE]
    ELSE Completed(ManifoldLoop(Stepped, read, 1))

\* The invalid native reads of the update.
Hazards(ms, disp, k, v, outcome) ==
    (IF ReadPastEnd(ms, disp, k) THEN {"staleIndex"} ELSE {})
    \cup (IF outcome = "stale"
             /\ \E i \in (k + 1)..Len(ms) : i > Len(disp) /\ Involves(ms[i], v)
          THEN {"freedBody"}
          ELSE {})

\* The listener had an event of the k-th manifold to be called with.
ListenerCalled(calls, k) == \E i \in DOMAIN calls : calls[i].call = "fire" /\ calls[i].m = k

Removing(ms, disp, k, v, outcome, r) ==
    /\ ListenerCalled(r.log, k)
    /\ Commit(r, ms, FALSE)
    /\ hazard' = Hazards(ms, disp, k, v, outcome)

OnUpdateRemoving(ms, k, v, outcome) ==
    /\ phase = "idle"
    /\ subscribed
    /\ dynamicsWorld.created
    /\ ManifoldsInWorld(ms)
    /\ contactPointPool <= MaxLeaked
    /\ contactResultPool <= MaxLeaked
    /\ singleContactResultPool <= MaxLeaked
    /\ scene[v].rigidbody
    /\ scene[v].body
    /\ outcome # "stale" => ReadPastEnd(ms, Without(ms, v), k)
    /\ Removing(ms, Without(ms, v), k, v, outcome,
                RemovalResult(AsRead(ms, Without(ms, v), k,
                                     LastRead(ms, Without(ms, v), k, outcome), outcome),
                              outcome = "abort" /\ ReadPastEnd(ms, Without(ms, v), k)))
    /\ Released(v)
    /\ removeArg' = [entity |-> v, body |-> TRUE]
    /\ phase' = "onUpdate"
    /\ manifolds' = ms
    /\ before' = collisions
    /\ emptyRun' = 0
    /\ UNCHANGED << hasCollision, listeners, systemContact, settled >>
    /\ UNCHANGED << libraryVars, rayVars >>

TickRemoving ==
    \E ms \in ManifoldLists, v \in Entities, outcome \in ReadOutcomes :
        \E k \in DOMAIN ms : OnUpdateRemoving(ms, k, v, outcome)

(***************************************************************************)
(* The life of the system from its construction: the library load, the     *)
(* bodies added to the world and removed from it, updates and raycasts.    *)
(* Every entity listens to every event of its collision component.         *)
(***************************************************************************)
\* The scene before any body has been created.
Unbuilt(sc) == [e \in Entities |-> [sc[e] EXCEPT !.body = FALSE]]

InitLifecycle ==
    /\ scene = Unbuilt(TwoBodiesAndTrigger)
    /\ hasCollision = [e \in Entities |-> TRUE]
    /\ listeners = [e \in Entities |-> EventNames]
    /\ systemContact = FALSE
    /\ Constructed
    /\ ammo \in BOOLEAN
    /\ dynamicsWorld = NoWorld
    /\ rayTemps = FALSE
    /\ subscribed = TRUE
    /\ libraryLoaded = FALSE
    /\ inWorld = {}

NextLifecycle ==
    \/ OnLibraryLoaded
    \/ AddBody
    \/ OnRemove
    \/ Tick
    \/ TickRemoving
    \/ Raycast
    \/ Return

SpecLifecycle == InitLifecycle /\ [][NextLifecycle]_vars

(***************************************************************************)
(* The transform sync: scenes whose entities 1 and 2 have a rigid body     *)
(* component of any type, with or without a body, active or asleep,        *)
(* enabled or not, on an enabled or disabled entity; nobody listens.       *)
(***************************************************************************)
\* The collision flags of a body of the given type.
BodyFlags(type) ==
    IF type = BODYTYPE_STATIC THEN BODYFLAG_STATIC_OBJECT
    ELSE IF type = BODYTYPE_KINEMATIC THEN BODYFLAG_KINEMATIC_OBJECT
    ELSE 0

RigidBodies ==
    { [ rigidbody |-> TRUE, trigger |-> FALSE, flags |-> BodyFlags(t), type |-> t,
        body |-> b, active |-> a, enabled |-> en, entityEnabled |-> ee ] :
        t \in {BODYTYPE_STATIC, BODYTYPE_DYNAMIC, BODYTYPE_KINEMATIC},
        b \in BOOLEAN, a \in BOOLEAN, en \in BOOLEAN, ee \in BOOLEAN }

SyncScenes == { << c1, c2, TriggerVolume >> : c1 \in RigidBodies, c2 \in RigidBodies }

InitSync ==
    /\ scene \in SyncScenes
    /\ hasCollision = [e \in Entities |-> TRUE]
    /\ listeners = [e \in Entities |-> {}]
    /\ systemContact = FALSE
    /\ Constructed
    /\ ammo = TRUE
    /\ dynamicsWorld = World(Gravity)
    /\ rayTemps = TRUE
    /\ subscribed = TRUE
    /\ libraryLoaded = TRUE
    /\ inWorld = { b \in Bodies : b \in {1, 2} => scene[b].body }

NextSync ==
    \/ Tick
    \/ Return

SpecSync == InitSync /\ [][NextSync]_vars

(***************************************************************************)
(* Raycasts alone: every ray test of RayTestsWide, with a callback that    *)
(* returns or throws, until MaxRayLeaks query objects are left alive.      *)
(***************************************************************************)
RayTestsWide ==
    { NoRay } \cup
    { [hit |-> TRUE, body |-> b, point |-> p, normal |-> n] :
        b \in Bodies \cup {NullBody}, p \in Vecs, n \in Vecs }

InitRay ==
    /\ scene = TwoBodiesAndTrigger
    /\ hasCollision = [e \in Entities |-> TRUE]
    /\ listeners = [e \in Entities |-> {}]
    /\ systemContact = FALSE
    /\ Constructed
    /\ Loaded

RaycastWithCallback ==
    \E ray \in RayTestsWide, callback \in CallbackOutcomes :
        /\ rayLive < MaxRayLeaks
        /\ raycastFirst(ray, callback)

NextRay ==
    \/ RaycastWithCallback
    \/ Return

SpecRay == InitRay /\ [][NextRay]_vars

(***************************************************************************)
(* Recorded scenario runs: a scene of two dynamic bodies and a trigger     *)
(* volume whose listeners are fixed for the run, and at most MaxSteps      *)
(* updates, each recorded in hist with the events it fired.                *)
(***************************************************************************)
ScenarioInputs == { << >>, << Touching12 >>, << Touching32 >> }

InitScenario ==
    /\ scene = TwoBodiesAndTrigger
    /\ hasCollision = [e \in Entities |-> TRUE]
    /\ listeners \in [Entities -> ScenarioListenerSets]
    /\ systemContact \in BOOLEAN
    /\ Constructed
    /\ Loaded

ScenarioTick ==
    \E ms \in ScenarioInputs :
        /\ Len(hist) < MaxSteps
        /\ OnUpdate(ms, TRUE)

NextScenario ==
    \/ ScenarioTick
    \/ Return

SpecScenario == InitScenario /\ [][NextScenario]_vars

(***************************************************************************)
(* Contact geometry: updates whose single manifold joins the two dynamic   *)
(* bodies at one contact point drawn from BtPoints, both bodies listening  *)
(* for contact.                                                            *)
(***************************************************************************)
InitContact ==
    /\ scene = TwoBodiesAndTrigger
    /\ hasCollision = [e \in Entities |-> TRUE]
    /\ listeners = [e \in Entities |-> IF e = 3 THEN {} ELSE {"contact"}]
    /\ systemContact \in BOOLEAN
    /\ Constructed
    /\ Loaded

ContactInputs == { << Manifold(1, 2, << p >>) >> : p \in BtPoints }

ContactTick ==
    \E ms \in ContactInputs : OnUpdate(ms, FALSE)

NextContact ==
    \/ ContactTick
    \/ Return

SpecContact == InitContact /\ [][NextContact]_vars

(***************************************************************************)
(* Observations on a sequence of calls.                                    *)
(***************************************************************************)
\* The positions of the events `name` fired on e (NoEntity: on the system).
Fires(calls, e, name) ==
    { i \in DOMAIN calls :
        calls[i].call = "fire" /\ calls[i].on = e /\ calls[i].ev = name }

\* The collisionstart events on A whose ContactResult names B.
StartsOn(calls, A, B) ==
    { i \in Fires(calls, A, "collisionstart") : calls[i].cr.other = B }

\* The events `name` on X with the entity Y as payload.
EndsOn(calls, x, y, name) ==
    { i \in Fires(calls, x, name) : calls[i].ent = y }

\* The events fired while the m-th manifold was processed.
FiredFor(calls, m) ==
    { i \in DOMAIN calls : calls[i].call = "fire" /\ calls[i].m = m }

CollisionListening(e) ==
    hasCollision[e] /\ listeners[e] \cap {"collisionstart", "collisionend", "contact"} # {}

TriggerListening(e) ==
    hasCollision[e] /\ listeners[e] \cap {"triggerenter", "triggerleave"} # {}

\* The manifold is between the entities A and B, in either order.
Joins(man, A, B) == { EntityOf(man.body0), EntityOf(man.body1) } = { A, B }

\* The manifold takes the collision path of lines 656-708.
OnCollisionPath(man) ==
    /\ Len(man.contacts) > 0
    /\ EntityOf(man.body0) # NoEntity
    /\ EntityOf(man.body1) # NoEntity
    /\ ~NoResponse(Flags(EntityOf(man.body0)))
    /\ ~NoResponse(Flags(EntityOf(man.body1)))

(***************************************************************************)
(* C1: a pairing (A,B) on the collision path, with a contact point and A   *)
(* listening, fires collisionstart on A with other = B exactly once in the *)
(* update that first reports it, and not at all in an update that finds it *)
(* still in the durable registry.                                          *)
(***************************************************************************)
C1_CollisionStartOncePerPairing ==
    phase = "onUpdate" =>
        \A A \in Entities, B \in Entities :
            ( /\ A # B
              /\ CollisionListening(A)
              /\ \E i \in DOMAIN manifolds :
                     OnCollisionPath(manifolds[i]) /\ Joins(manifolds[i], A, B) )
            => Cardinality(StartsOn(log, A, B))
                   = IF <<A, B>> \in PairsOf(before) THEN 0 ELSE 1

(***************************************************************************)
(* C2: every directed pairing (X,Y) of the durable registry that the       *)
(* manifolds of the next update do not report fires exactly one            *)
(* collisionend on X with payload Y in that update (exactly one            *)
(* triggerleave if X is a trigger) and is removed from the registry.       *)
(***************************************************************************)
C2_AbsentPairingEnds ==
    phase = "onUpdate" =>
        \A x \in Entities, y \in Entities :
            ( /\ <<x, y>> \in PairsOf(before)
              /\ \A i \in DOMAIN manifolds : ~Joins(manifolds[i], x, y) )
            => /\ <<x, y>> \notin PairsOf(collisions)
               /\ Cardinality(EndsOn(log, x, y,
                      IF scene[x].trigger THEN "triggerleave" ELSE "collisionend")) = 1

(***************************************************************************)
(* C3: two listening dynamic bodies whose manifold has contacts in steps   *)
(* 1 to 3 and is gone in steps 4 and 5 get collisionstart in step 1 only,  *)
(* contact in each of steps 1 to 3, collisionend in step 4 only, and step  *)
(* 5 fires nothing.                                                        *)
(***************************************************************************)
EventsAt(k, e, name) == Cardinality(Fires(hist[k].fired, e, name))

NamesAt(k) == { hist[k].fired[i].ev : i \in DOMAIN hist[k].fired }

OverlapThenApart ==
    /\ Len(hist) >= 5
    /\ \A k \in 1..3 : hist[k].manifolds = << Touching12 >>
    /\ \A k \in 4..5 : hist[k].manifolds = << >>

C3_OverlapThreeStepsThenApart ==
    (OverlapThenApart /\ CollisionListening(1) /\ CollisionListening(2)) =>
        /\ \A e \in {1, 2} : \A k \in 1..5 :
               /\ EventsAt(k, e, "collisionstart") = IF k = 1 THEN 1 ELSE 0
               /\ EventsAt(k, e, "contact") = IF k <= 3 THEN 1 ELSE 0
               /\ EventsAt(k, e, "collisionend") = IF k = 4 THEN 1 ELSE 0
        /\ StartsOn(hist[1].fired, 1, 2) # {}
        /\ StartsOn(hist[1].fired, 2, 1) # {}
        /\ EndsOn(hist[4].fired, 1, 2, "collisionend") # {}
        /\ EndsOn(hist[4].fired, 2, 1, "collisionend") # {}
        /\ NamesAt(1) = {"collisionstart", "contact"}
        /\ NamesAt(2) = {"contact"}
        /\ NamesAt(3) = {"contact"}
        /\ NamesAt(4) = {"collisionend"}
        /\ hist[5].fired = << >>

C3_RunCompleted ==
    OverlapThenApart /\ CollisionListening(1) /\ CollisionListening(2) /\ systemContact

(***************************************************************************)
(* C4: a listening trigger volume and a dynamic body whose manifold has    *)
(* contacts in exactly one step of the run get, over the whole run,        *)
(* exactly one triggerenter and exactly one triggerleave (both on the      *)
(* trigger, with the body as payload), and the run fires no contact and    *)
(* no collisionstart, on an entity or on the system.                       *)
(***************************************************************************)
TotalOf(name) ==
    Cardinality(UNION { { <<k, i>> : i \in { i \in DOMAIN hist[k].fired :
                                                  hist[k].fired[i].ev = name } }
                        : k \in DOMAIN hist })

OverlapInStep(k) ==
    /\ k < Len(hist)
    /\ hist[k].manifolds = << Touching32 >>
    /\ \A j \in DOMAIN hist : j # k => hist[j].manifolds = << >>

C4_TriggerOverlapOneStep ==
    \A k \in DOMAIN hist :
        (OverlapInStep(k) /\ TriggerListening(3)) =>
            /\ TotalOf("triggerenter") = 1
            /\ TotalOf("triggerleave") = 1
            /\ EndsOn(hist[k].fired, 3, 2, "triggerenter") # {}
            /\ EndsOn(hist[k + 1].fired, 3, 2, "triggerleave") # {}
            /\ TotalOf("contact") = 0
            /\ TotalOf("collisionstart") = 0

C4_RunCompleted ==
    /\ OverlapInStep(2)
    /\ TriggerListening(3)
    /\ TriggerListening(2)
    /\ systemContact

(***************************************************************************)
(* C5: in every state between two updates no entry of the durable registry *)
(* has an empty list of others; an entity whose last other reconciliation  *)
(* removed has no entry left when the update returns.                      *)
(***************************************************************************)
C5_NoEmptyEntry ==
    \A k \in DOMAIN collisions : Len(collisions[k].others) > 0

C5_EntryDeleted ==
    /\ phase = "onUpdate"
    /\ \E k \in DOMAIN before : KeyOf(collisions, before[k].guid) = 0
    /\ collisions # << >>

(***************************************************************************)
(* C6: an update whose dispatcher reports no manifold leaves the durable   *)
(* registry empty; a second such update in a row fires no event and        *)
(* leaves both registries as it found them, empty.                         *)
(***************************************************************************)
C6_EmptyUpdateIdempotent ==
    (phase = "onUpdate" /\ manifolds = << >>) =>
        /\ collisions = << >>
        /\ ~threw
        /\ emptyRun = 2 =>
               /\ Fired(log) = << >>
               /\ before = << >>
               /\ collisions = before
               /\ frameCollisions = << >>

C6_SecondEmptyUpdate ==
    /\ phase = "onUpdate"
    /\ emptyRun = 2
    /\ systemContact
    /\ \A e \in Entities : CollisionListening(e) /\ TriggerListening(e)

(***************************************************************************)
(* C7: the events fired for one manifold between A (body 0) and B (body 1) *)
(* come in the order: the global contact events, contact on A,             *)
(* collisionstart on A with the ContactResult of A's contact, contact on   *)
(* B, collisionstart on B; on the trigger path triggerenter on A comes     *)
(* before triggerenter on B.  No event on B comes before an event on A.    *)
(***************************************************************************)
Rank(c, man) ==
    IF c.on = NoEntity THEN 0
    ELSE IF c.on = EntityOf(man.body0)
         THEN (IF c.ev = "collisionstart" THEN 2 ELSE 1)
         ELSE (IF c.ev = "collisionstart" THEN 4 ELSE 3)

C7_OrderWithinManifold ==
    phase = "onUpdate" =>
        \A m \in DOMAIN manifolds : \A i \in FiredFor(log, m), j \in FiredFor(log, m) :
            /\ log[i].on \in { NoEntity, EntityOf(manifolds[m].body0),
                               EntityOf(manifolds[m].body1) }
            /\ log[i].ev \in {"contact", "collisionstart", "triggerenter"}
            /\ log[i].on = NoEntity => log[i].ev = "contact"
            /\ i < j =>
                   /\ Rank(log[i], manifolds[m]) <= Rank(log[j], manifolds[m])
                   /\ Rank(log[i], manifolds[m]) = Rank(log[j], manifolds[m])
                          => Rank(log[i], manifolds[m]) = 0
            /\ ( /\ log[i].on = log[j].on
                 /\ log[i].on # NoEntity
                 /\ log[i].ev = "contact"
                 /\ log[j].ev = "collisionstart" )
               => log[i].cr = log[j].cr

C7_AllFiveKinds ==
    /\ phase = "onUpdate"
    /\ \E m \in DOMAIN manifolds :
           { Rank(log[i], manifolds[m]) : i \in FiredFor(log, m) } = {0, 1, 2, 3, 4}

(***************************************************************************)
(* C8: an update that runs to completion calls freeAll exactly once on     *)
(* each of the three pools, after every event of the update, the events of *)
(* reconciliation included; afterwards no pooled object is outstanding and *)
(* the next allocate of each pool hands out index zero.                    *)
(***************************************************************************)
Pools == {"contactPointPool", "contactResultPool", "singleContactResultPool"}

C8_PoolsResetAfterEvents ==
    (phase = "onUpdate" /\ ~threw) =>
        /\ \A pool \in Pools :
               Cardinality({ i \in DOMAIN log :
                               log[i].call = "freeAll" /\ log[i].ev = pool }) = 1
        /\ \A i \in DOMAIN log, j \in DOMAIN log :
               (log[i].call = "fire" /\ log[j].call = "freeAll") => i < j
        /\ contactPointPool = 0
        /\ contactResultPool = 0
        /\ singleContactResultPool = 0
        /\ Allocate(contactPointPool).index = 0
        /\ Allocate(contactResultPool).index = 0
        /\ Allocate(singleContactResultPool).index = 0

C8_CompletedWithEvents ==
    /\ phase = "onUpdate"
    /\ ~threw
    /\ \E i \in DOMAIN log : log[i].call = "fire" /\ log[i].ev = "collisionend"
    /\ \E i \in DOMAIN log : log[i].call = "fire" /\ log[i].cr.index > 0
    /\ \E i \in DOMAIN log : log[i].call = "fire" /\ log[i].scr.index > 0

(***************************************************************************)
(* C9: for every contact point of a manifold, the forward ContactPoint f   *)
(* (in the ContactResult of body 0's entity) and the reverse ContactPoint  *)
(* r (in that of body 1's entity) have point and pointOther swapped,       *)
(* localPoint and localPointOther swapped, and the same normal, the world  *)
(* normal on B.                                                            *)
(***************************************************************************)
Swapped(f, r) ==
    /\ f.point = r.pointOther
    /\ f.pointOther = r.point
    /\ f.localPoint = r.localPointOther
    /\ f.localPointOther = r.localPoint
    /\ f.normal = r.normal

C10_CallbackOnlyForOwnedBody ==
    phase = "raycastFirst" =>
        /\ Len(rayResults) <= 1
        /\ (rayInput.hit /\ EntityOf(rayInput.body) # NoEntity) =>
               rayResults = << RaycastResult(EntityOf(rayInput.body), rayInput.point,
                                             rayInput.normal) >>
        /\ (~rayInput.hit \/ EntityOf(rayInput.body) = NoEntity) =>
               rayResults = << >>

(***************************************************************************)
(* C11: every call of raycastFirst creates exactly one native ray-query    *)
(* object and has destroyed it when the call ends, on the hit path and on  *)
(* the miss path; after any sequence of calls no query object is alive.    *)
(***************************************************************************)
C11_QueryReleased ==
    /\ rayLive = 0
    /\ phase = "raycastFirst" => rayCreated = 1

(***************************************************************************)
(* C12: once onLibraryLoaded has run with Ammo undefined there is no       *)
(* dynamics world, the update handler is unbound and no update runs; once  *)
(* it has run with Ammo defined the world exists with its gravity set and  *)
(* the update handler stays bound.                                         *)
(***************************************************************************)
C12_LibraryDecidesUpdate ==
    libraryLoaded =>
        IF ammo
        THEN dynamicsWorld = World(Gravity) /\ subscribed
        ELSE dynamicsWorld = NoWorld /\ ~subscribed /\ phase # "onUpdate"

C12_LoadedWithoutAmmo ==
    /\ libraryLoaded
    /\ ~ammo
    /\ phase = "idle"
    /\ emptyRun > 0

(***************************************************************************)
(* C13: onRemove on a component that owns a body calls removeBody, then    *)
(* Ammo.destroy, then sets data.body to null; on a component without a     *)
(* body it only sets data.body to null.  Over any sequence of calls each   *)
(* body is removed from the world and destroyed at most once.              *)
(***************************************************************************)
C13_RemoveOnceThenNoOp ==
    /\ \A e \in Entities :
           /\ removeCalls[e] <= 1
           /\ destroyCalls[e] <= 1
           /\ removeCalls[e] = 1 => (e \notin inWorld /\ ~scene[e].body)
           /\ destroyCalls[e] = 1 <=> e \in destroyed
    /\ phase = "onRemove" =>
           /\ ~threw
           /\ ~scene[removeArg.entity].body
           /\ log = IF removeArg.body
                    THEN << Call("removeBody", removeArg.entity),
                            Call("destroy", removeArg.entity),
                            Call("data.body = null", removeArg.entity) >>
                    ELSE << Call("data.body = null", removeArg.entity) >>
           /\ removeArg.body =>
                  /\ removeCalls[removeArg.entity] = 1
                  /\ destroyCalls[removeArg.entity] = 1

C13_SecondRemove ==
    /\ phase = "onRemove"
    /\ ~removeArg.body
    /\ removeCalls[removeArg.entity] = 1
    /\ destroyCalls[removeArg.entity] = 1

(***************************************************************************)
(* C14: an update during which a listener removes and destroys a body      *)
(* never reads a manifold index the dispatcher no longer holds, never      *)
(* dereferences the removed body, and completes normally.                  *)
(***************************************************************************)
C14_RemovalTolerated ==
    (phase = "onUpdate" /\ removeArg.entity # NoEntity) =>
        /\ hazard = {}
        /\ ~threw

(***************************************************************************)
(* C15: every update steps the world first and then synchronizes exactly   *)
(* the components that have a body, an active body, are enabled and sit on *)
(* an enabled entity: a dynamic one by syncBodyToEntity, a kinematic one   *)
(* by _updateKinematic, a static one not at all; all of it before the      *)
(* first manifold is looked at.                                            *)
(***************************************************************************)
CallsOn(calls, e, name) ==
    { i \in DOMAIN calls : calls[i].call = name /\ calls[i].on = e }

Synchronized(e) ==
    /\ scene[e].rigidbody
    /\ scene[e].body
    /\ scene[e].active
    /\ scene[e].enabled
    /\ scene[e].entityEnabled

C15_SyncByStateAndType ==
    (phase = "onUpdate" /\ dynamicsWorld.created) =>
        /\ log[1] = Call("stepSimulation", NoEntity)
        /\ \A i \in DOMAIN log : log[i].call = "stepSimulation" => i = 1
        /\ \A e \in Entities :
               /\ Cardinality(CallsOn(log, e, "syncBodyToEntity"))
                      = IF Synchronized(e) /\ scene[e].type = BODYTYPE_DYNAMIC
                        THEN 1 ELSE 0
               /\ Cardinality(CallsOn(log, e, "_updateKinematic"))
                      = IF Synchronized(e) /\ scene[e].type = BODYTYPE_KINEMATIC
                        THEN 1 ELSE 0
               /\ \A i \in CallsOn(log, e, "syncBodyToEntity")
                           \cup CallsOn(log, e, "_updateKinematic") :
                      \A j \in DOMAIN log :
                          log[j].call \in {"fire", "allocate", "_storeCollision", "freeAll"}
                              => i < j

C15_KinematicBesideStatic ==
    /\ phase = "onUpdate"
    /\ scene[1].type = BODYTYPE_KINEMATIC
    /\ CallsOn(log, 1, "_updateKinematic") # {}
    /\ scene[2].type = BODYTYPE_STATIC
    /\ Synchronized(2)
    /\ manifolds # << >>

(***************************************************************************)
(* C16: collisionstart or triggerenter for the directed pair (X,Y) is      *)
(* fired only right after a registration of (X,Y) that found the pair new, *)
(* with the pair by then in the this-frame registry.  A registration finds *)
(* the pair new exactly when Y is not among X's others in the durable      *)
(* registry at that moment: the update did not find it there and has not   *)
(* registered it before.                                                   *)
(***************************************************************************)
StoreCalls(calls) == { i \in DOMAIN calls : calls[i].call = "_storeCollision" }

RegisteredEarlier(calls, i) ==
    \E j \in StoreCalls(calls) :
        j < i /\ calls[j].on = calls[i].on /\ calls[j].ent = calls[i].ent

StartOrEnter(calls) ==
    { i \in DOMAIN calls :
        calls[i].call = "fire" /\ calls[i].ev \in {"collisionstart", "triggerenter"} }

\* The other entity a start or enter event names.
OtherOf(c) == IF c.ev = "collisionstart" THEN c.cr.other ELSE c.ent

C16_NewWhenNotYetRegistered ==
    phase = "onUpdate" =>
        /\ \A i \in StoreCalls(log) :
               /\ log[i].ev = "new"
                      <=> /\ << log[i].on, log[i].ent >> \notin PairsOf(before)
                          /\ ~RegisteredEarlier(log, i)
               /\ << log[i].on, log[i].ent >> \in PairsOf(frameCollisions)
               /\ << log[i].on, log[i].ent >> \in PairsOf(collisions)
        /\ \A i \in StartOrEnter(log) :
               /\ i > 1
               /\ log[i - 1] = StoreCall(log[i].on, OtherOf(log[i]), TRUE, log[i].m)

C16_SecondRegistrationInStep ==
    /\ phase = "onUpdate"
    /\ ~threw
    /\ before = settled
    /\ \E i \in StoreCalls(log), j \in StoreCalls(log) :
           /\ i < j
           /\ log[i].on = log[j].on
           /\ log[i].ent = log[j].ent
           /\ log[i].ev = "new"
           /\ log[j].ev = "known"
           /\ Cardinality({ n \in StartOrEnter(log) :
                               log[n].on = log[i].on /\ OtherOf(log[n]) = log[i].ent }) = 1

\* C16 as stated: a registration finds the pair new exactly when Y was not
\* among X's others in the durable registry at the end of the previous
\* completed update.
C16_NewExactlyWhenAbsentAfterLastStep ==
    phase = "onUpdate" =>
        \A i \in StoreCalls(log) :
            log[i].ev = "new" <=> << log[i].on, log[i].ent >> \notin PairsOf(settled)

(***************************************************************************)
(* C17: for a manifold on the trigger path (both entities resolved, at     *)
(* least one contact, either body a no-response object), each side X with  *)
(* a triggerenter or triggerleave listener has the pair (X, other) in both *)
(* registries after the update, and triggerenter is fired on X with the    *)
(* other entity exactly when the pair was new to the durable registry and  *)
(* the other body is not a no-response object; a side without such a       *)
(* listener is not registered.  The manifold allocates nothing from the    *)
(* pools and fires no contact and no collisionstart.                       *)
(***************************************************************************)
OnTriggerPath(man) ==
    /\ Len(man.contacts) > 0
    /\ EntityOf(man.body0) # NoEntity
    /\ EntityOf(man.body1) # NoEntity
    /\ \/ NoResponse(Flags(EntityOf(man.body0)))
       \/ NoResponse(Flags(EntityOf(man.body1)))

\* The two directed pairs of a manifold.
Sides(man) ==
    { << EntityOf(man.body0), EntityOf(man.body1) >>,
      << EntityOf(man.body1), EntityOf(man.body0) >> }

C17_TriggerPathRegistersAndEnters ==
    phase = "onUpdate" =>
        \A m \in DOMAIN manifolds :
            OnTriggerPath(manifolds[m]) =>
                /\ \A side \in Sides(manifolds[m]) :
                       IF TriggerListening(side[1])
                       THEN /\ side \in PairsOf(collisions)
                            /\ side \in PairsOf(frameCollisions)
                            /\ Cardinality(EndsOn(log, side[1], side[2], "triggerenter"))
                                   = IF side \notin PairsOf(before)
                                        /\ ~NoResponse(Flags(side[2]))
                                     THEN 1 ELSE 0
                       ELSE \A i \in StoreCalls(log) :
                                log[i].m = m => log[i].on # side[1]
                /\ \A i \in DOMAIN log :
                       log[i].m = m =>
                           /\ log[i].call # "allocate"
                           /\ log[i].call = "fire" => log[i].ev = "triggerenter"

(***************************************************************************)
(* C18: triggerenter is fired on a side only when the other body is not a  *)
(* no-response object, whereas reconciliation fires triggerleave for every *)
(* ended pair whose owner is a trigger (both sides having a collision      *)
(* component, not both rigid bodies) whatever the other body's flags.  So  *)
(* two trigger entities with trigger listeners get no triggerenter while   *)
(* they overlap and a triggerleave each when they separate.                *)
(***************************************************************************)
EndedPairs ==
    { pair \in PairsOf(before) : pair \notin PairsOf(frameCollisions) }

EndsFor(pair, name) == Cardinality(EndsOn(log, pair[1], pair[2], name))

BothRigid(pair) == scene[pair[1]].rigidbody /\ scene[pair[2]].rigidbody

C19_EndEventIfBothHaveCollision ==
    (phase = "onUpdate" /\ ~threw) =>
        \A pair \in PairsOf(before) :
            IF pair \in EndedPairs
            THEN /\ pair \notin PairsOf(collisions)
                 /\ EndsFor(pair, "collisionend")
                        = IF hasCollision[pair[1]] /\ hasCollision[pair[2]]
                             /\ BothRigid(pair)
                          THEN 1 ELSE 0
                 /\ EndsFor(pair, "triggerleave")
                        = IF hasCollision[pair[1]] /\ hasCollision[pair[2]]
                             /\ ~BothRigid(pair) /\ scene[pair[1]].trigger
                          THEN 1 ELSE 0
            ELSE /\ pair \in PairsOf(collisions)
                 /\ EndsFor(pair, "collisionend") = 0
                 /\ EndsFor(pair, "triggerleave") = 0

C19_EndedWithAndWithoutComponent ==
    /\ phase = "onUpdate"
    /\ ~threw
    /\ \E pair \in EndedPairs :
           ~hasCollision[pair[2]] /\ pair \notin PairsOf(collisions)
    /\ \E pair \in EndedPairs : EndsFor(pair, "collisionend") = 1

\* C19 as stated: the end event is fired only if both sides still have
\* listeners on their collision component.
Listening(e) == hasCollision[e] /\ listeners[e] # {}

C19_EndEventIfBothListen ==
    (phase = "onUpdate" /\ ~threw) =>
        \A pair \in EndedPairs :
            /\ pair \notin PairsOf(collisions)
            /\ EndsFor(pair, "collisionend")
                   = IF Listening(pair[1]) /\ Listening(pair[2]) /\ BothRigid(pair)
                     THEN 1 ELSE 0
            /\ EndsFor(pair, "triggerleave")
                   = IF Listening(pair[1]) /\ Listening(pair[2])
                        /\ ~BothRigid(pair) /\ scene[pair[1]].trigger
                     THEN 1 ELSE 0

(***************************************************************************)
(* C20: a manifold on the collision path, with no contact listener on the  *)
(* system and no collisionstart, collisionend or contact listener on       *)
(* either entity, allocates nothing, fires nothing and registers nothing;  *)
(* and on the collision path a side without such a listener is never       *)
(* registered as the owner of a pairing.                                   *)
(***************************************************************************)
C20_NothingWithoutListeners ==
    phase = "onUpdate" =>
        \A m \in DOMAIN manifolds :
            OnCollisionPath(manifolds[m]) =>
                /\ ( /\ ~systemContact
                     /\ ~CollisionListening(EntityOf(manifolds[m].body0))
                     /\ ~CollisionListening(EntityOf(manifolds[m].body1)) )
                   => \A i \in DOMAIN log : log[i].m # m
                /\ \A i \in StoreCalls(log) :
                       log[i].m = m =>
                           /\ CollisionListening(log[i].on)
                           /\ << log[i].on, log[i].ent >> \in PairsOf(frameCollisions)
                /\ \A side \in Sides(manifolds[m]) :
                       ~CollisionListening(side[1])
                           => side \notin PairsOf(frameCollisions)

C20_UnheardManifold ==
    /\ phase = "onUpdate"
    /\ ~threw
    /\ ~systemContact
    /\ \E m \in DOMAIN manifolds :
           /\ OnCollisionPath(manifolds[m])
           /\ hasCollision[EntityOf(manifolds[m].body0)]
           /\ hasCollision[EntityOf(manifolds[m].body1)]
           /\ ~CollisionListening(EntityOf(manifolds[m].body0))
           /\ ~CollisionListening(EntityOf(manifolds[m].body1))
           /\ Sides(manifolds[m]) \subseteq PairsOf(before)
           /\ Sides(manifolds[m]) \cap PairsOf(collisions) = {}

(***************************************************************************)
(* C21: with a contact listener on the system, every manifold on the       *)
(* collision path with n contact points between the entities e0 and e1     *)
(* fires exactly n contact events on the system while it is processed, in  *)
(* the order of the contact points, the j-th carrying a = e0, b = e1 and   *)
(* the fields of the forward contact point of the j-th contact, whether or *)
(* not e0 or e1 listens.  Without a listener on the system no contact      *)
(* event is fired on it and nothing is allocated from the                  *)
(* singleContactResultPool.                                                *)
(***************************************************************************)
\* The calls of the system's fire("contact", ...) for the m-th manifold.
GlobalContacts(m) ==
    SelectSeq(log, LAMBDA c : /\ c.call = "fire" /\ c.on = NoEntity
                              /\ c.ev = "contact" /\ c.m = m)

\* The SingleContactResult carries a, b and the point as the forward
\* contact point of the manifold's contact holds it.
CarriesForward(scr, e0, e1, btContactPoint) ==
    /\ scr.a = e0
    /\ scr.b = e1
    /\ scr.localPointA = btContactPoint.m_localPointA
    /\ scr.localPointB = btContactPoint.m_localPointB
    /\ scr.pointA = btContactPoint.positionWorldOnA
    /\ scr.pointB = btContactPoint.positionWorldOnB
    /\ scr.normal = btContactPoint.m_normalWorldOnB

SingleResultAllocations ==
    { i \in DOMAIN log :
        log[i].call = "allocate" /\ log[i].ev = "singleContactResultPool" }

C21_GlobalContactPerPoint ==
    phase = "onUpdate" =>
        /\ \A m \in DOMAIN manifolds :
               (systemContact /\ OnCollisionPath(manifolds[m])) =>
                   /\ Len(GlobalContacts(m)) = Len(manifolds[m].contacts)
                   /\ \A j \in DOMAIN GlobalContacts(m) :
                          CarriesForward(GlobalContacts(m)[j].scr,
                                         EntityOf(manifolds[m].body0),
                                         EntityOf(manifolds[m].body1),
                                         manifolds[m].contacts[j])
        /\ ~systemContact =>
               /\ Fires(log, NoEntity, "contact") = {}
               /\ SingleResultAllocations = {}

\* C21 for the updates that ran to their end.
C21_GlobalContactPerPointIfCompleted == threw \/ C21_GlobalContactPerPoint

\* An update with a system listener went through a manifold whose entities
\* do not listen.
C21_GlobalOnly ==
    /\ phase = "onUpdate"
    /\ ~threw
    /\ systemContact
    /\ \E m \in DOMAIN manifolds :
           /\ OnCollisionPath(manifolds[m])
           /\ ~CollisionListening(EntityOf(manifolds[m].body0))
           /\ ~CollisionListening(EntityOf(manifolds[m].body1))
           /\ Len(GlobalContacts(m)) = 2

(***************************************************************************)
(* Manifolds the update passes over: updates whose manifolds may have a    *)
(* body without entity on either side or no contact point, in a scene      *)
(* whose entities listen to everything or to nothing and whose trigger     *)
(* volume may have lost its collision component.                           *)
(***************************************************************************)
SkipManifolds ==
    { Touching12,
      Touching32,
      Manifold(OrphanBody, 2, << BtContact(1) >>),
      Manifold(3, OrphanBody, << BtContact(1) >>),
      Manifold(1, 2, << >>),
      Manifold(3, 2, << >>) }

SkipLists == UNION { [1..n -> SkipManifolds] : n \in 0..MaxManifolds }

SkipListeners ==
    { ls \in [Entities -> ListenerSets] : ls[1] = ls[2] }

InitSkip ==
    /\ scene = TwoBodiesAndTrigger
    /\ hasCollision \in { [e \in Entities |-> TRUE], [e \in Entities |-> e # 3] }
    /\ listeners \in SkipListeners
    /\ hasCollision[3] \/ listeners[3] = {}
    /\ systemContact \in BOOLEAN
    /\ Constructed
    /\ Loaded

SkipTick == \E ms \in SkipLists : OnUpdate(ms, FALSE)

NextSkip ==
    \/ SkipTick
    \/ Return

SpecSkip == InitSkip /\ [][NextSkip]_vars

(***************************************************************************)
(* C22: a manifold one of whose bodies has no entity is skipped: while it  *)
(* is processed nothing is fired, allocated or registered, and the update  *)
(* leaves the registries, the pools, its calls and its outcome exactly as  *)
(* the update of the same state on the manifold list without the skipped   *)
(* manifolds leaves them.                                                  *)
(***************************************************************************)
IsResolved(man) == EntityOf(man.body0) # NoEntity /\ EntityOf(man.body1) # NoEntity

ResolvedOnly(ms) == SelectSeq(ms, IsResolved)

\* The calls without the index of the manifold they were made for.
Unindexed(calls) == [k \in DOMAIN calls |-> [calls[k] EXCEPT !.m = 0]]

\* The update that has just run left what r holds.
LeftAs(r) ==
    /\ collisions' = r.coll
    /\ frameCollisions' = r.frame
    /\ contactPointPool' = r.cp
    /\ contactResultPool' = r.cr
    /\ singleContactResultPool' = r.scr
    /\ threw' = r.threw
    /\ Unindexed(log') = Unindexed(r.log)

C22_UnresolvedSkipped ==
    [][ (phase = "idle" /\ phase' = "onUpdate") =>
            /\ LeftAs(UpdateResult(ResolvedOnly(manifolds')))
            /\ \A k \in DOMAIN log' :
                   log'[k].m \in DOMAIN manifolds' => IsResolved(manifolds'[log'[k].m])
      ]_vars

\* An update skipped its first manifold, whose body 0 has no entity, and
\* fired the events of the second and registered its pairings.
C22_SkippedThenProcessed ==
    /\ phase = "onUpdate"
    /\ ~threw
    /\ Len(manifolds) = 2
    /\ EntityOf(manifolds[1].body0) = NoEntity
    /\ Len(manifolds[1].contacts) > 0
    /\ FiredFor(log, 1) = {}
    /\ FiredFor(log, 2) # {}
    /\ Sides(manifolds[2]) \subseteq PairsOf(collisions)

(***************************************************************************)
(* C23: the collision component of an entity is optional: an update one of *)
(* whose manifolds has a contact point and joins two entities of which one *)
(* has no collision component ends without error and fires nothing on the  *)
(* entity without the component.                                           *)
(***************************************************************************)
\* The entities of the manifold that have no collision component.
Bare(man) ==
    { e \in { EntityOf(man.body0), EntityOf(man.body1) } : ~hasCollision[e] }

MeetsBare(man) ==
    /\ Len(man.contacts) > 0
    /\ IsResolved(man)
    /\ Bare(man) # {}

C23_CollisionOptional ==
    phase = "onUpdate" =>
        \A m \in DOMAIN manifolds :
            MeetsBare(manifolds[m]) =>
                /\ ~threw
                /\ \A e \in Bare(manifolds[m]), k \in DOMAIN log :
                       log[k].call = "fire" => log[k].on # e

\* Every update that meets such a manifold ends with a TypeError.
C23_BareManifoldThrows ==
    phase = "onUpdate" =>
        ((\E m \in DOMAIN manifolds : MeetsBare(manifolds[m])) <=> threw)

(***************************************************************************)
(* removeBody (lines 357-359), addConstraint (361-364), removeConstraint   *)
(* (366-368) and setGravity (385-397).  With this.dynamicsWorld undefined  *)
(* each is a TypeError.                                                    *)
(***************************************************************************)
removeBody(b) ==
    /\ phase = "idle"
    /\ b \in inWorld
    /\ phase' = "removeBody"
    /\ threw' = ~dynamicsWorld.created
    /\ inWorld' = IF dynamicsWorld.created THEN inWorld \ {b} ELSE inWorld
    /\ UNCHANGED << scene, hasCollision, listeners, systemContact, collisions,
                    frameCollisions, contactPointPool, contactResultPool,
                    singleContactResultPool, manifolds, log, before, settled,
                    emptyRun, hist, removeArg, hazard, destroyed, removeCalls,
                    destroyCalls >>
    /\ UNCHANGED << libraryVars, rayVars >>

RemoveBody == \E b \in Bodies : removeBody(b)

\* The constraints the application creates.
Constraints == {"hinge"}

\* What a call on the world's constraints leaves: the world must exist.
WorldCall(name, constraints) ==
    /\ phase = "idle"
    /\ phase' = name
    /\ threw' = ~dynamicsWorld.created
    /\ dynamicsWorld' = IF dynamicsWorld.created
                        THEN [dynamicsWorld EXCEPT !.constraints = constraints]
                        ELSE dynamicsWorld
    /\ UNCHANGED << scene, hasCollision, listeners, systemContact, collisions,
                    frameCollisions, contactPointPool, contactResultPool,
                    singleContactResultPool, manifolds, log, before, settled,
                    emptyRun, hist, removeArg, hazard, ammo, rayTemps, subscribed,
                    libraryLoaded >>
    /\ UNCHANGED << bodyVars, rayVars >>

addConstraint(constraint) ==
    /\ constraint \notin dynamicsWorld.constraints
    /\ WorldCall("addConstraint", dynamicsWorld.constraints \cup {constraint})

AddConstraint == \E constraint \in Constraints : addConstraint(constraint)

removeConstraint(constraint) ==
    /\ constraint \in dynamicsWorld.constraints
    /\ WorldCall("removeConstraint", dynamicsWorld.constraints \ {constraint})

RemoveConstraint == \E constraint \in Constraints : removeConstraint(constraint)

\* The arguments of setGravity: one vector, or the three components.
GravityArguments == { << << "0", "0", "0" >> >>, << "0", "-1", "0" >> }

\* Lines 386-395: x, y and z as the two forms of the call give them.
GravityOf(arguments) ==
    IF Len(arguments) = 1
    THEN Vec3(X(arguments[1]), Y(arguments[1]), Z(arguments[1]))
    ELSE Vec3(arguments[1], arguments[2], arguments[3])

setGravity(arguments) ==
    /\ phase = "idle"
    /\ phase' = "setGravity"
    /\ threw' = ~dynamicsWorld.created
    /\ dynamicsWorld' = IF dynamicsWorld.created
                        THEN [dynamicsWorld EXCEPT !.gravity = GravityOf(arguments)]
                        ELSE dynamicsWorld
    /\ UNCHANGED << scene, hasCollision, listeners, systemContact, collisions,
                    frameCollisions, contactPointPool, contactResultPool,
                    singleContactResultPool, manifolds, log, before, settled,
                    emptyRun, hist, removeArg, hazard, ammo, rayTemps, subscribed,
                    libraryLoaded >>
    /\ UNCHANGED << bodyVars, rayVars >>

SetGravity == \E arguments \in GravityArguments : setGravity(arguments)

(***************************************************************************)
(* initializeComponentData (lines 300-317) for the rigid body component    *)
(* being created on entity e, and cloneComponent (lines 319-336), which    *)
(* hands the configuration of entity's component to addComponent and so to *)
(* initializeComponentData.  The component has no body yet; of its         *)
(* configuration the scene keeps the type and the enabled flag.            *)
(***************************************************************************)
\* An entity with no component of the physics systems.
Plain ==
    [ rigidbody |-> FALSE, trigger |-> FALSE, flags |-> 0, type |-> "none",
      body |-> FALSE, active |-> FALSE, enabled |-> FALSE, entityEnabled |-> TRUE ]

\* The configurations a component is created with: `bodyType` is the
\* deprecated name of `type` ("": the field is absent).
ComponentData ==
    { [bodyType |-> "", type |-> BODYTYPE_DYNAMIC, enabled |-> TRUE],
      [bodyType |-> BODYTYPE_KINEMATIC, type |-> "", enabled |-> TRUE],
      [bodyType |-> "", type |-> BODYTYPE_STATIC, enabled |-> FALSE] }

\* Lines 302-305: data.type after the rename of the deprecated field.
TypeOf(data) == IF data.bodyType # "" THEN data.bodyType ELSE data.type

\* The entity with the component the configuration describes.
Initialized(ent, type, enabled) ==
    [ent EXCEPT !.rigidbody = TRUE, !.type = type, !.enabled = enabled,
                !.flags = BodyFlags(type), !.active = TRUE]

initializeComponentData(e, data, name) ==
    /\ phase = "idle"
    /\ ~scene[e].rigidbody
    /\ phase' = name
    /\ threw' = FALSE
    /\ scene' = [scene EXCEPT ![e] = Initialized(@, TypeOf(data), data.enabled)]
    /\ log' = IF data.bodyType # "" THEN << Call("console.warn", e) >> ELSE << >>
    /\ UNCHANGED << hasCollision, listeners, systemContact, collisions,
                    frameCollisions, contactPointPool, contactResultPool,
                    singleContactResultPool, manifolds, before, settled,
                    emptyRun, hist, removeArg, hazard >>
    /\ UNCHANGED << libraryVars, bodyVars, rayVars >>

InitializeComponentData ==
    \E e \in Entities, data \in ComponentData :
        initializeComponentData(e, data, "initializeComponentData")

\* Lines 321-333: the data block built from entity's component.
ClonedData(rigidbody) ==
    [bodyType |-> "", type |-> rigidbody.type, enabled |-> rigidbody.enabled]

cloneComponent(entity, clone) ==
    /\ scene[entity].rigidbody
    /\ initializeComponentData(clone, ClonedData(scene[entity]), "cloneComponent")

CloneComponent ==
    \E entity \in Entities, clone \in Entities : cloneComponent(entity, clone)

(***************************************************************************)
(* Every operation of the system on a loaded library: a kinematic and a    *)
(* dynamic body, both listening to everything, and an entity without       *)
(* component that may be given one and a body.                             *)
(***************************************************************************)
BodiesAndPlain == << Dynamic(TRUE, TRUE, TRUE), Kinematic(TRUE, TRUE, TRUE), Plain >>

OperationLists ==
    { << >>, << Touching12 >>, << Touching32 >>, << Touching12, Touching32 >> }

InitOperations ==
    /\ scene = BodiesAndPlain
    /\ hasCollision = [e \in Entities |-> TRUE]
    /\ listeners = [e \in Entities |-> EventNames]
    /\ systemContact \in BOOLEAN
    /\ Constructed
    /\ ammo = TRUE
    /\ dynamicsWorld = World(Gravity)
    /\ rayTemps = TRUE
    /\ subscribed = TRUE
    /\ libraryLoaded = TRUE
    /\ inWorld = {1, 2, OrphanBody}

OperationsTick == \E ms \in OperationLists : OnUpdate(ms, FALSE)

NextOperations ==
    \/ OperationsTick
    \/ Return
    \/ AddBody
    \/ RemoveBody
    \/ AddConstraint
    \/ RemoveConstraint
    \/ SetGravity
    \/ Raycast
    \/ OnRemove
    \/ CloneComponent
    \/ InitializeComponentData

SpecOperations == InitOperations /\ [][NextOperations]_vars

(***************************************************************************)
(* C24: the two registries and the consumption of the three pools change   *)
(* only in onUpdate: addBody, removeBody, addConstraint, removeConstraint, *)
(* setGravity, raycastFirst, onRemove, cloneComponent and                  *)
(* initializeComponentData leave all five as they found them; onRemove in  *)
(* particular leaves the durable entries of the removed entity in place.   *)
(***************************************************************************)
OtherOperations ==
    { "addBody", "removeBody", "addConstraint", "removeConstraint", "setGravity",
      "raycastFirst", "onRemove", "cloneComponent", "initializeComponentData" }

C24_OnlyUpdateChangesRegistries ==
    [][ phase' \in OtherOperations =>
            UNCHANGED << collisions, frameCollisions, contactPointPool,
                         contactResultPool, singleContactResultPool >>
      ]_vars

\* onRemove has released the body of an entity that both registries still
\* hold, as the owner of a pairing and as the other of one.
C24_RemovedStillRegistered ==
    /\ phase = "onRemove"
    /\ removeArg.body
    /\ removeArg.entity \in destroyed
    /\ \E y \in Entities :
           /\ << removeArg.entity, y >> \in PairsOf(collisions)
           /\ << y, removeArg.entity >> \in PairsOf(collisions)
           /\ << removeArg.entity, y >> \in PairsOf(frameCollisions)

(***************************************************************************)
(* C25: after every update that ran to its end the durable and the         *)
(* this-frame registry hold the same directed pairings: Y is among X's     *)
(* others in the one exactly when it is among X's others in the other.     *)
(* The durable registry holds an other at most once in an entry, the       *)
(* this-frame registry as often as the pairing was registered.             *)
(***************************************************************************)
\* No element occurs twice in the sequence.
NoDuplicates(s) == \A i \in DOMAIN s, j \in DOMAIN s : s[i] = s[j] => i = j

C25_SamePairingsAfterUpdate ==
    /\ \A k \in DOMAIN collisions : NoDuplicates(collisions[k].others)
    /\ (phase = "onUpdate" /\ ~threw) =>
           PairsOf(collisions) = PairsOf(frameCollisions)

\* A completed update ended one pairing of an entity and kept another, which
\* the this-frame registry holds twice.
C25_KeptTwiceAndEnded ==
    /\ phase = "onUpdate"
    /\ ~threw
    /\ \E pair \in PairsOf(before) : pair \notin PairsOf(collisions)
    /\ \E k \in DOMAIN frameCollisions :
           /\ ~NoDuplicates(frameCollisions[k].others)
           /\ \E pair \in PairsOf(before) :
                  /\ pair[1] = frameCollisions[k].entity
                  /\ pair \in PairsOf(collisions)

(***************************************************************************)
(* Recorded runs in a changing scene: the two dynamic bodies listen to     *)
(* everything, the script of entity 1 stops and starts listening and the   *)
(* collision component of the trigger volume is removed and added between  *)
(* the updates, of which at most MaxRecorded are recorded in hist, the     *)
(* ones a TypeError ended included.                                        *)
(***************************************************************************)
\* Bodies 1 and 2 touching at one point.
Grazing12 == Manifold(1, 2, << BtContact(1) >>)

RecordedInputs == { << >>, << Grazing12 >>, << Grazing12, Touching32 >> }

InitRecorded ==
    /\ scene = TwoBodiesAndTrigger
    /\ hasCollision = [e \in Entities |-> TRUE]
    /\ listeners = [e \in Entities |-> IF e = 3 THEN {} ELSE EventNames]
    /\ systemContact = FALSE
    /\ Constructed
    /\ Loaded

RecordedTick ==
    \E ms \in RecordedInputs :
        /\ Len(hist) < MaxRecorded
        /\ OnUpdate(ms, TRUE)

\* The script of entity 1 removes its listeners or adds them again.
SetListenersOfFirst ==
    \E ls \in ListenerSets :
        /\ phase = "idle"
        /\ ls # listeners[1]
        /\ listeners' = [listeners EXCEPT ![1] = ls]
        /\ UNCHANGED << scene, hasCollision, systemContact, collisions, frameCollisions,
                        contactPointPool, contactResultPool, singleContactResultPool,
                        phase, manifolds, log, threw, before, settled, emptyRun,
                        hist, removeArg, hazard >>
        /\ UNCHANGED << libraryVars, bodyVars, rayVars >>

NextRecorded ==
    \/ RecordedTick
    \/ Return
    \/ SetListenersOfFirst
    \/ SetCollisionComponent

SpecRecorded == InitRecorded /\ [][NextRecorded]_vars

(***************************************************************************)
(* C26: over the updates of a run, the collisionstart and collisionend     *)
(* events of a directed pair (X,Y) alternate: every collisionend fired on  *)
(* X with payload Y comes after a collisionstart fired on X with other = Y *)
(* with no collisionend on X for Y between the two.                        *)
(***************************************************************************)
\* The events of the recorded updates from the k-th on, in the order fired.
RECURSIVE FiredFrom(_)
FiredFrom(k) == IF k > Len(hist) THEN << >> ELSE hist[k].fired \o FiredFrom(k + 1)

\* The collisionstart and collisionend events of the pair (x, y) in `fired`.
StartsAndEnds(fired, x, y) ==
    SelectSeq(fired, LAMBDA c :
        /\ c.on = x
        /\ \/ c.ev = "collisionstart" /\ c.cr.other = y
           \/ c.ev = "collisionend" /\ c.ent = y)

\* Every collisionend of the sequence follows a collisionstart immediately.
EndsFollowStarts(s) ==
    \A i \in DOMAIN s :
        s[i].ev = "collisionend" => (i > 1 /\ s[i - 1].ev = "collisionstart")

C26_StartAndEndAlternate ==
    \A x \in Entities, y \in Entities :
        EndsFollowStarts(StartsAndEnds(FiredFrom(1), x, y))

\* A run in which a pair started, ended, started again in an update that a
\* TypeError ended, and ended again in the next update.
C26_StartedAndEndedTwice ==
    /\ phase = "onUpdate"
    /\ ~threw
    /\ \E x \in Entities, y \in Entities :
           /\ << x, y >> \in PairsOf(before)
           /\ << x, y >> \notin PairsOf(settled)
           /\ EndsOn(log, x, y, "collisionend") # {}
           /\ Len(StartsAndEnds(FiredFrom(1), x, y)) >= 4

(***************************************************************************)
(* C27: a manifold with no contact point counts as no contact: while it is *)
(* processed nothing is fired and nothing registered, and if no manifold   *)
(* of the update joins its two entities at a contact point, neither        *)
(* registry holds their pairings after the update, and a pairing the       *)
(* durable registry held has ended with the collisionend or triggerleave   *)
(* of an absent manifold.                                                  *)
(***************************************************************************)
\* Some manifold of the update joins the entities of `man` at a contact point.
StillTouching(man) ==
    \E k \in DOMAIN manifolds :
        /\ Len(manifolds[k].contacts) > 0
        /\ Sides(manifolds[k]) = Sides(man)

C27_ZeroContactsIsNoContact ==
    phase = "onUpdate" =>
        \A m \in DOMAIN manifolds :
            (IsResolved(manifolds[m]) /\ Len(manifolds[m].contacts) = 0) =>
                /\ \A k \in DOMAIN log : log[k].m # m
                /\ ~StillTouching(manifolds[m]) =>
                       \A pair \in Sides(manifolds[m]) :
                           /\ pair \notin PairsOf(frameCollisions)
                           /\ pair \notin PairsOf(collisions)
                           /\ pair \in PairsOf(before) =>
                                  /\ EndsFor(pair, "collisionend")
                                         = IF hasCollision[pair[1]] /\ hasCollision[pair[2]]
                                              /\ BothRigid(pair)
                                           THEN 1 ELSE 0
                                  /\ EndsFor(pair, "triggerleave")
                                         = IF hasCollision[pair[1]] /\ hasCollision[pair[2]]
                                              /\ ~BothRigid(pair) /\ scene[pair[1]].trigger
                                           THEN 1 ELSE 0

\* C27 for the updates that ran to their end.
C27_ZeroContactsIsNoContactIfCompleted == threw \/ C27_ZeroContactsIsNoContact

\* A completed update ended, with a collisionend, a pairing whose manifold
\* it found without contact point.
C27_EndedAtZeroContacts ==
    /\ phase = "onUpdate"
    /\ ~threw
    /\ \E m \in DOMAIN manifolds :
           /\ IsResolved(manifolds[m])
           /\ Len(manifolds[m].contacts) = 0
           /\ \E pair \in Sides(manifolds[m]) :
                  /\ pair \in PairsOf(before)
                  /\ pair \notin PairsOf(collisions)
                  /\ EndsFor(pair, "collisionend") = 1

(***************************************************************************)
(* C28: whenever the update handler is bound to the 'update' event, so     *)
(* that a tick calls it, the dynamics world exists: over every order of    *)
(* construction, library load and ticks, onUpdate never runs without a     *)
(* world.                                                                  *)
(***************************************************************************)
C28_NoUpdateWithoutWorld == phase = "onUpdate" => dynamicsWorld.created

\* C28 on the states a tick may find: the handler is bound only to a system
\* that has its world.
C28_BoundOnlyWithWorld == phase = "idle" => (subscribed => dynamicsWorld.created)

\* Once the library has been loaded the handler is bound only to a system
\* that has its world.
C28_AfterLoadOnlyWithWorld ==
    libraryLoaded => (subscribed => dynamicsWorld.created)

====
